---- MODULE Spec2Model ----
(***************************************************************************)
(* Model of the chain acceptor of dusk-blockchain                          *)
(* (pkg/core/chain/chain.go): block acceptance, finalisation of the        *)
(* intermediate block on a certificate, the sync fallback that asks peers  *)
(* for round results, candidate verification, rebuild and the round        *)
(* update fan-out.                                                         *)
(***************************************************************************)
EXTENDS Integers, Sequences, FiniteSets, TLC

\* ------------------------------------------------------------------------
\* Bounds of the model
\* ------------------------------------------------------------------------
MaxHeight == 2        \* highest height of a block offered to the chain
NumKeys == 1          \* BLS keys of provisioners that appear in stakes
NumBids == 1          \* distinct bid commitments that appear in bids
MaxLock == 0          \* highest lock time of a stake or bid transaction
MaxPending == 1       \* round-update goroutines scheduled and not yet run
MaxChan == 1          \* round-results responses waiting in the channel
MaxSync == 2          \* highest number of blocks the counter is started at
MaxStakes == 2        \* stakes one provisioner holds at a time

\* ------------------------------------------------------------------------
\* Program constants
\* ------------------------------------------------------------------------
MockTimestamp == 1570000000
MockHeight == 1
StakeOffset == 2
BlsKeyLen == 129
RoundResultsChanCap == 10

Keys == 1..NumKeys
BadKey == 0           \* a public key whose length is not BlsKeyLen
BidIds == 1..NumBids
Locks == 0..MaxLock
SeedMod == 2
ZeroSeed == 0         \* make([]byte, 33)

Nil == [nil |-> TRUE]

KeyLen(k) == IF k = BadKey THEN 0 ELSE BlsKeyLen

\* ------------------------------------------------------------------------
\* Blocks, certificates, transactions
\* ------------------------------------------------------------------------
EmptyHash == <<>>

EmptyCertificate == [For |-> EmptyHash, Signers |-> {}]

Cert(h, s) == [For |-> h, Signers |-> s]

StakeTx(k, l) == [Type |-> "stake", PubKeyBLS |-> k, Amount |-> 1, Lock |-> l]

BidTx(x, l) == [Type |-> "bid", X |-> x, Lock |-> l]

\* the hash covers the header without the hash and certificate fields
CalculateHash(height, prev, seed, ts, txs, ok) == <<height, prev, seed, ts, txs, ok>>

NewBlock(height, prev, seed, ts, txs, ok) ==
    [Height |-> height, PrevBlockHash |-> prev, Seed |-> seed, Timestamp |-> ts,
     Txs |-> txs, ok |-> ok, Certificate |-> EmptyCertificate,
     Hash |-> CalculateHash(height, prev, seed, ts, txs, ok)]

WithCertificate(blk, cert) == [blk EXCEPT !.Certificate = cert]

Genesis == NewBlock(0, EmptyHash, ZeroSeed, 0, <<>>, TRUE)

\* a genesis block that carries a stake and a bid, locked for longer than any
\* transaction of a later block
GenesisLock == MaxLock + 1

GenesisWithNodes ==
    NewBlock(0, EmptyHash, ZeroSeed, 0,
             <<[Type |-> "stake", PubKeyBLS |-> 1, Amount |-> 1, Lock |-> GenesisLock],
               [Type |-> "bid", X |-> 1, Lock |-> GenesisLock]>>, TRUE)

\* the genesis block of the node's configuration: the block stored at height 0
DecodeGenesis(db) == db[1]

mockFirstIntermediateBlock(prevBlock) ==
    NewBlock(MockHeight, prevBlock.Hash, ZeroSeed, MockTimestamp, <<>>, TRUE)

\* ------------------------------------------------------------------------
\* verifiers (pkg/core/verifiers), as the specification describes them
\* ------------------------------------------------------------------------
CheckBlock(prevBlock, blk) ==
    /\ blk.ok
    /\ blk.Height = prevBlock.Height + 1
    /\ blk.PrevBlockHash = prevBlock.Hash

CheckBlockCertificate(p, blk) ==
    \/ blk.Height <= 1
    \/ /\ blk.Certificate.For = blk.Hash
       /\ blk.Certificate.Signers # {}
       /\ blk.Certificate.Signers \subseteq p.Set

\* ------------------------------------------------------------------------
\* Provisioners and bid list
\* ------------------------------------------------------------------------
NewProvisioners == [Set |-> {}, Members |-> <<>>]

EmptyBidList == <<>>

Stake(amount, start, end) == [Amount |-> amount, StartHeight |-> start, EndHeight |-> end]

addProvisioner(p, pubKeyBLS, amount, startHeight, endHeight) ==
    IF KeyLen(pubKeyBLS) # BlsKeyLen THEN p
    ELSE IF pubKeyBLS \in p.Set
         THEN [p EXCEPT !.Members[pubKeyBLS] = Append(@, Stake(amount, startHeight, endHeight))]
         ELSE [Set |-> p.Set \cup {pubKeyBLS},
               Members |-> [k \in DOMAIN p.Members \cup {pubKeyBLS} |->
                              IF k = pubKeyBLS THEN <<Stake(amount, startHeight, endHeight)>>
                              ELSE p.Members[k]]]

\* Member.RemoveStake: the last stake takes the place of the removed one
RemoveStake(stakes, i) ==
    LET n == Len(stakes)
    IN SubSeq([stakes EXCEPT ![i] = stakes[n]], 1, n - 1)

RECURSIVE RemoveExpiredStakes(_, _, _)
RemoveExpiredStakes(stakes, i, round) ==
    IF i > Len(stakes) THEN stakes
    ELSE IF stakes[i].EndHeight < round
         THEN RemoveExpiredStakes(RemoveStake(stakes, i), 1, round)
         ELSE RemoveExpiredStakes(stakes, i + 1, round)

\* the removal loop without the reset of the index after a removal
RECURSIVE RemoveExpiredStakesNoReset(_, _, _)
RemoveExpiredStakesNoReset(stakes, i, round) ==
    IF i > Len(stakes) THEN stakes
    ELSE IF stakes[i].EndHeight < round
         THEN RemoveExpiredStakesNoReset(RemoveStake(stakes, i), i + 1, round)
         ELSE RemoveExpiredStakesNoReset(stakes, i + 1, round)

removeExpiredProvisionersNoReset(p, round) ==
    LET left == [k \in DOMAIN p.Members |-> RemoveExpiredStakesNoReset(p.Members[k], 1, round)]
        gone == {k \in DOMAIN p.Members : Len(p.Members[k]) > 0 /\ Len(left[k]) = 0}
    IN IF gone = {} THEN [p EXCEPT !.Members = left]
       ELSE IF DOMAIN p.Members \ gone = {} THEN NewProvisioners
       ELSE [Set |-> p.Set \ gone,
             Members |-> [k \in DOMAIN p.Members \ gone |-> left[k]]]

removeExpiredProvisioners(p, round) ==
    LET left == [k \in DOMAIN p.Members |-> RemoveExpiredStakes(p.Members[k], 1, round)]
        gone == {k \in DOMAIN p.Members : Len(p.Members[k]) > 0 /\ Len(left[k]) = 0}
    IN IF gone = {} THEN [p EXCEPT !.Members = left]
       ELSE IF DOMAIN p.Members \ gone = {} THEN NewProvisioners
       ELSE [Set |-> p.Set \ gone,
             Members |-> [k \in DOMAIN p.Members \ gone |-> left[k]]]

BidEquals(a, b) == a.X = b.X

addBid(bidList, bid) ==
    IF \E i \in 1..Len(bidList) : BidEquals(bidList[i], bid) THEN bidList
    ELSE Append(bidList, bid)

addBidder(bidList, tx, startHeight) ==
    addBid(bidList, [X |-> tx.X, M |-> tx.X, EndHeight |-> startHeight + tx.Lock])

\* A Go slice: the backing array arr and the length len of the slice over it.
\* BidList.Remove(idx) shifts arr[idx+1..len] one place down in the backing
\* array and shortens the slice; the array cells from len on keep their value.
SliceRemove(s, idx) ==
    [arr |-> [j \in 1..Len(s.arr) |->
                IF j >= idx /\ j < s.len THEN s.arr[j + 1] ELSE s.arr[j]],
     len |-> s.len - 1]

\* removeBid ranges over the slice as it is when the call starts
RECURSIVE removeBidFrom(_, _, _, _)
removeBidFrom(s, bid, i, n) ==
    IF i > n THEN s
    ELSE IF BidEquals(s.arr[i], bid)
         THEN removeBidFrom(SliceRemove(s, i), bid, i + 1, n)
         ELSE removeBidFrom(s, bid, i + 1, n)

removeBid(s, bid) == removeBidFrom(s, bid, 1, s.len)

\* removeExpiredBids ranges over the slice header taken before the loop, and
\* reads each element from the shared backing array when it gets to it
RECURSIVE removeExpiredBidsFrom(_, _, _, _)
removeExpiredBidsFrom(s, round, j, n) ==
    IF j > n THEN s
    ELSE IF s.arr[j].EndHeight < round
         THEN removeExpiredBidsFrom(removeBid(s, s.arr[j]), round, j + 1, n)
         ELSE removeExpiredBidsFrom(s, round, j + 1, n)

removeExpiredBids(bidList, round) ==
    LET s == removeExpiredBidsFrom([arr |-> bidList, len |-> Len(bidList)],
                                   round, 1, Len(bidList))
    IN SubSeq(s.arr, 1, s.len)

\* addConsensusNodes starting the stakes at the height of the block itself
RECURSIVE addConsensusNodesAtBlockHeight(_, _, _, _)
addConsensusNodesAtBlockHeight(p, bidList, txs, startHeight) ==
    IF txs = <<>> THEN [p |-> p, bidList |-> bidList]
    ELSE LET tx == Head(txs)
         IN IF tx.Type = "stake"
            THEN addConsensusNodesAtBlockHeight(
                   addProvisioner(p, tx.PubKeyBLS, tx.Amount, startHeight - 2,
                                  startHeight + tx.Lock - 2),
                   bidList, Tail(txs), startHeight)
            ELSE addConsensusNodesAtBlockHeight(p, addBidder(bidList, tx, startHeight),
                                                Tail(txs), startHeight)

RECURSIVE addConsensusNodes(_, _, _, _)
addConsensusNodes(p, bidList, txs, startHeight) ==
    IF txs = <<>> THEN [p |-> p, bidList |-> bidList]
    ELSE LET tx == Head(txs)
         IN IF tx.Type = "stake"
            THEN addConsensusNodes(
                   addProvisioner(p, tx.PubKeyBLS, tx.Amount, startHeight,
                                  startHeight + tx.Lock - 2),
                   bidList, Tail(txs), startHeight)
            ELSE addConsensusNodes(p, addBidder(bidList, tx, startHeight),
                                   Tail(txs), startHeight)

\* ------------------------------------------------------------------------
\* Database and sync counter (external collaborators)
\* ------------------------------------------------------------------------
\* the stored blocks, db[h + 1] being the block stored at height h
StoreBlock(db, blk) ==
    IF blk.Height + 1 <= Len(db) THEN [db EXCEPT ![blk.Height + 1] = blk]
    ELSE Append(db, blk)

FetchCurrentHeight(db) == Len(db) - 1

IsSyncing(counter) == counter > 0

\* the counter's callback on the AcceptedBlock topic
decrement(counter) == IF counter > 0 THEN counter - 1 ELSE counter

RECURSIVE restoreFrom(_, _, _, _, _)
restoreFrom(p, bidList, db, searchingHeight, currentHeight) ==
    IF searchingHeight + 1 > Len(db) THEN [p |-> p, bidList |-> bidList]
    ELSE LET txs == db[searchingHeight + 1].Txs
             RECURSIVE each(_, _, _)
             each(pp, bl, i) ==
                 IF i > Len(txs) THEN [p |-> pp, bidList |-> bl]
                 ELSE IF searchingHeight + txs[i].Lock > currentHeight
                      THEN IF txs[i].Type = "stake"
                           THEN each(addProvisioner(pp, txs[i].PubKeyBLS, txs[i].Amount,
                                                    searchingHeight + 2,
                                                    searchingHeight + txs[i].Lock),
                                     bl, i + 1)
                           ELSE each(pp, addBidder(bl, txs[i], searchingHeight), i + 1)
                      ELSE each(pp, bl, i + 1)
             r == each(p, bidList, 1)
         IN restoreFrom(r.p, r.bidList, db, searchingHeight + 1, currentHeight)

restoreConsensusData(c) ==
    LET r == restoreFrom(c.p, c.bidList, c.db, 0, FetchCurrentHeight(c.db))
    IN [c EXCEPT !.p = r.p, !.bidList = r.bidList]

\* ------------------------------------------------------------------------
\* Events published on the event bus
\* ------------------------------------------------------------------------
StopConsensusEvent == [topic |-> "StopConsensus"]

AcceptedBlockEvent(blk) == [topic |-> "AcceptedBlock", blk |-> blk]

IntermediateBlockEvent(blk) == [topic |-> "IntermediateBlock", blk |-> blk]

advertiseBlock(blk) == [topic |-> "Gossip", kind |-> "Inv", hash |-> blk.Hash]

GetRoundResultsEvent(round) == [topic |-> "Gossip", kind |-> "GetRoundResults", round |-> round]

RoundUpdateEvent(c) ==
    [topic |-> "RoundUpdate",
     Round |-> c.intermediateBlock.Height + 1,
     P |-> c.p,
     BidList |-> c.bidList,
     Seed |-> c.intermediateBlock.Seed,
     Hash |-> c.intermediateBlock.Hash]

Topics(events) == {events[i].topic : i \in 1..Len(events)}

\* ------------------------------------------------------------------------
\* The chain's handlers, as functions of the chain state c
\* ------------------------------------------------------------------------
NoError == ""

\* AcceptBlock without the certificate check
AcceptBlockNoCertificate(c, blk, storeOk) ==
    IF ~CheckBlock(c.prevBlock, blk)
    THEN [c |-> c, err |-> "block verification failed", events |-> <<>>]
    ELSE LET n == addConsensusNodes(c.p, c.bidList, blk.Txs, blk.Height + StakeOffset)
             c1 == [c EXCEPT !.p = n.p, !.bidList = n.bidList]
         IN IF ~storeOk
            THEN [c |-> c1, err |-> "block storing failed", events |-> <<>>]
            ELSE [c |-> [c1 EXCEPT !.db = StoreBlock(@, blk),
                                   !.prevBlock = blk,
                                   !.p = removeExpiredProvisioners(@, blk.Height),
                                   !.bidList = removeExpiredBids(@, blk.Height + 2),
                                   !.counter = decrement(@)],
                  err |-> NoError,
                  events |-> <<advertiseBlock(blk), AcceptedBlockEvent(blk)>>]

\* AcceptBlock adding the consensus nodes before it verifies the block
AcceptBlockNodesFirst(c, blk, storeOk) ==
    LET n == addConsensusNodes(c.p, c.bidList, blk.Txs, blk.Height + StakeOffset)
        c1 == [c EXCEPT !.p = n.p, !.bidList = n.bidList]
    IN IF ~CheckBlock(c.prevBlock, blk)
       THEN [c |-> c1, err |-> "block verification failed", events |-> <<>>]
       ELSE IF ~CheckBlockCertificate(c.p, blk)
       THEN [c |-> c1, err |-> "certificate verification failed", events |-> <<>>]
       ELSE IF ~storeOk
       THEN [c |-> c1, err |-> "block storing failed", events |-> <<>>]
       ELSE [c |-> [c1 EXCEPT !.db = StoreBlock(@, blk),
                              !.prevBlock = blk,
                              !.p = removeExpiredProvisioners(@, blk.Height),
                              !.bidList = removeExpiredBids(@, blk.Height + 2),
                              !.counter = decrement(@)],
             err |-> NoError,
             events |-> <<advertiseBlock(blk), AcceptedBlockEvent(blk)>>]

AcceptBlock(c, blk, storeOk) ==
    IF ~CheckBlock(c.prevBlock, blk)
    THEN [c |-> c, err |-> "block verification failed", events |-> <<>>]
    ELSE IF ~CheckBlockCertificate(c.p, blk)
    THEN [c |-> c, err |-> "certificate verification failed", events |-> <<>>]
    ELSE LET n == addConsensusNodes(c.p, c.bidList, blk.Txs, blk.Height + StakeOffset)
             c1 == [c EXCEPT !.p = n.p, !.bidList = n.bidList]
         IN IF ~storeOk
            THEN [c |-> c1, err |-> "block storing failed", events |-> <<>>]
            ELSE [c |-> [c1 EXCEPT !.db = StoreBlock(@, blk),
                                   !.prevBlock = blk,
                                   !.p = removeExpiredProvisioners(@, blk.Height),
                                   !.bidList = removeExpiredBids(@, blk.Height + 2),
                                   !.counter = decrement(@)],
                  err |-> NoError,
                  events |-> <<advertiseBlock(blk), AcceptedBlockEvent(blk)>>]

\* finalizeIntermediateBlock promoting the intermediate block without AcceptBlock
finalizeIntermediateBlockUnchecked(c, cert, storeOk) ==
    LET ib == WithCertificate(c.intermediateBlock, cert)
    IN [c |-> [c EXCEPT !.intermediateBlock = ib, !.prevBlock = ib,
                        !.db = StoreBlock(@, ib)],
        err |-> NoError,
        events |-> <<advertiseBlock(ib), AcceptedBlockEvent(ib)>>]

finalizeIntermediateBlock(c, cert, storeOk) ==
    LET ib == WithCertificate(c.intermediateBlock, cert)
    IN AcceptBlock([c EXCEPT !.intermediateBlock = ib], ib, storeOk)

\* handleCertificateMessage keeping the candidate's certificate as the last one
handleCertificateMessageCandidateCert(c, cMsg, resp, storeOk) ==
    IF resp = Nil
    THEN [c |-> [c EXCEPT !.lastCertificate = cMsg.cert],
          ret |-> "could not find winning candidate block", events |-> <<>>, go |-> FALSE]
    ELSE IF c.intermediateBlock = Nil
    THEN [c |-> [c EXCEPT !.lastCertificate = cMsg.cert],
          ret |-> "intermediate block is missing", events |-> <<>>, go |-> FALSE]
    ELSE LET r == finalizeIntermediateBlock(c, resp.Certificate, storeOk)
         IN IF r.err # NoError
            THEN [c |-> r.c, ret |-> "could not accept intermediate block",
                  events |-> r.events, go |-> FALSE]
            ELSE [c |-> [r.c EXCEPT !.intermediateBlock = resp.Block,
                                    !.lastCertificate = resp.Certificate],
                  ret |-> NoError,
                  events |-> Append(r.events, IntermediateBlockEvent(resp.Block)),
                  go |-> TRUE]

\* resp is the answer of the GetCandidate rpc call: Nil for an error
handleCertificateMessage(c, cMsg, resp, storeOk) ==
    LET c0 == [c EXCEPT !.lastCertificate = cMsg.cert]
    IN IF resp = Nil
       THEN [c |-> c0, ret |-> "could not find winning candidate block",
             events |-> <<>>, go |-> FALSE]
       ELSE IF c0.intermediateBlock = Nil
       THEN [c |-> c0, ret |-> "intermediate block is missing",
             events |-> <<>>, go |-> FALSE]
       ELSE LET r == finalizeIntermediateBlock(c0, resp.Certificate, storeOk)
            IN IF r.err # NoError
               THEN [c |-> r.c, ret |-> "could not accept intermediate block",
                     events |-> r.events, go |-> FALSE]
               ELSE [c |-> [r.c EXCEPT !.intermediateBlock = resp.Block],
                     ret |-> NoError,
                     events |-> Append(r.events, IntermediateBlockEvent(resp.Block)),
                     go |-> TRUE]

\* processCandidateVerificationRequest checking against the chain tip
processCandidateVerificationRequestTip(c, cm) ==
    IF c.intermediateBlock = Nil THEN "no intermediate block hash known"
    ELSE IF CheckBlock(c.prevBlock, cm.Block) THEN NoError
    ELSE "block verification failed"

processCandidateVerificationRequest(c, cm) ==
    IF c.intermediateBlock = Nil THEN "no intermediate block hash known"
    ELSE IF CheckBlock(c.intermediateBlock, cm.Block) THEN NoError
    ELSE "block verification failed"

\* onAcceptBlock asking for the round results after every accepted block
onAcceptBlockAlwaysRequest(c, blk, storeOk) ==
    IF ~IsSyncing(c.counter)
    THEN [c |-> c, err |-> NoError, events |-> <<>>, request |-> FALSE]
    ELSE LET r == AcceptBlock(c, blk, storeOk)
             ev == <<StopConsensusEvent>> \o r.events
         IN IF r.err # NoError
            THEN [c |-> r.c, err |-> r.err, events |-> ev, request |-> FALSE]
            ELSE [c |-> r.c, err |-> NoError,
                  events |-> Append(ev, GetRoundResultsEvent(blk.Height + 1)),
                  request |-> TRUE]

\* onAcceptBlock halting the consensus only once the block is accepted
onAcceptBlockStopAfterAccept(c, blk, storeOk) ==
    IF ~IsSyncing(c.counter)
    THEN [c |-> c, err |-> NoError, events |-> <<>>, request |-> FALSE]
    ELSE LET r == AcceptBlock(c, blk, storeOk)
             ev == r.events \o <<StopConsensusEvent>>
         IN IF r.err # NoError
            THEN [c |-> r.c, err |-> r.err, events |-> <<>>, request |-> FALSE]
            ELSE IF ~IsSyncing(r.c.counter)
            THEN [c |-> r.c, err |-> NoError,
                  events |-> Append(ev, GetRoundResultsEvent(blk.Height + 1)),
                  request |-> TRUE]
            ELSE [c |-> r.c, err |-> NoError, events |-> ev, request |-> FALSE]

\* the part of onAcceptBlock that runs before the round results are awaited
onAcceptBlock(c, blk, storeOk) ==
    IF ~IsSyncing(c.counter)
    THEN [c |-> c, err |-> NoError, events |-> <<>>, request |-> FALSE]
    ELSE LET r == AcceptBlock(c, blk, storeOk)
             ev == <<StopConsensusEvent>> \o r.events
         IN IF r.err # NoError
            THEN [c |-> r.c, err |-> r.err, events |-> ev, request |-> FALSE]
            ELSE IF ~IsSyncing(r.c.counter)
            THEN [c |-> r.c, err |-> NoError,
                  events |-> Append(ev, GetRoundResultsEvent(blk.Height + 1)),
                  request |-> TRUE]
            ELSE [c |-> r.c, err |-> NoError, events |-> ev, request |-> FALSE]

\* the loop of requestRoundResults without the certificate check
ValidRoundResultsNoCertificate(c, cm) == CheckBlock(c.prevBlock, cm.Block)

\* one turn of the loop of requestRoundResults on the response cm
ValidRoundResults(c, cm) ==
    /\ CheckBlock(c.prevBlock, cm.Block)
    /\ CheckBlockCertificate(c.p, WithCertificate(cm.Block, cm.Certificate))

\* resetState leaving the last certificate as it is
resetStateKeepsCertificate(c) ==
    restoreConsensusData([c EXCEPT !.p = NewProvisioners,
                                   !.bidList = EmptyBidList,
                                   !.intermediateBlock = mockFirstIntermediateBlock(c.prevBlock)])

resetState(c) ==
    restoreConsensusData([c EXCEPT !.p = NewProvisioners,
                                   !.bidList = EmptyBidList,
                                   !.intermediateBlock = mockFirstIntermediateBlock(c.prevBlock),
                                   !.lastCertificate = EmptyCertificate])

\* a failure of the ClearWalletDatabase call, after the state was reset, panics
rebuild(c, clearOk, walletOk) ==
    IF ~clearOk
    THEN [c |-> c, err |-> "clear database failed", events |-> <<StopConsensusEvent>>,
          panic |-> FALSE]
    ELSE [c |-> resetState([c EXCEPT !.db = <<DecodeGenesis(c.db)>>,
                                     !.prevBlock = DecodeGenesis(c.db)]),
          err |-> NoError, events |-> <<StopConsensusEvent>>, panic |-> ~walletOk]

\* chain.New on the stored blocks db
New(db) ==
    LET tip == db[Len(db)]
        c == [prevBlock |-> tip, intermediateBlock |-> Nil, lastCertificate |-> Nil,
              p |-> NewProvisioners, bidList |-> EmptyBidList, db |-> db, counter |-> 0]
    IN restoreConsensusData(
         IF tip.Hash = DecodeGenesis(db).Hash
         THEN [c EXCEPT !.lastCertificate = EmptyCertificate,
                        !.intermediateBlock = mockFirstIntermediateBlock(tip)]
         ELSE c)

\* ------------------------------------------------------------------------
\* msg.Process: the consensus messages of a round and a step
\* ------------------------------------------------------------------------
MaxRound == 2

MaxStep == 2

MaxArrivals == 4

Positions == (1..MaxRound) \X (1..MaxStep)

\* the check of Process or verifyPayload that a message fails, "none" when it
\* passes them all
Failures == {"none", "signature", "version", "chain", "payload"}

\* user.Context: the round and the step, the queue of the messages parked for
\* each round and step, and the channel the verified messages are sent to
\* (the messages are of one payload type); each entry of the channel carries
\* the round and the step of the context when it was sent
NewContext ==
    [Round |-> 1, Step |-> 1, Queue |-> [rs \in Positions |-> <<>>], Chan |-> <<>>]

\* a message with a field pl is a block reduction message: pl tells whether
\* its sender is in the current committee and whether its BLS signature
\* verifies; "payload" stands for the checks that are not told apart
verifyPayload(ctx, msg) ==
    LET sent == [ctx |-> [ctx EXCEPT !.Chan = Append(@, [msg |-> msg, Round |-> ctx.Round,
                                                         Step |-> ctx.Step])],
                 err |-> NoError]
    IN IF "pl" \in DOMAIN msg
       THEN IF ctx.Step > msg.Step
            THEN [ctx |-> ctx, err |-> "step mismatch"]
            ELSE IF ~msg.pl.member
            THEN [ctx |-> ctx, err |-> "node is not included in committee"]
            ELSE IF msg.fails = "payload"
            THEN [ctx |-> ctx, err |-> "BLS key mismatch"]
            ELSE IF ~msg.pl.blsOk
            THEN [ctx |-> ctx, err |-> "BLS verification failed"]
            ELSE sent
       ELSE IF msg.fails = "payload"
            THEN [ctx |-> ctx, err |-> "payload verification failed"]
            ELSE sent

RECURSIVE Process(_, _)
Process(ctx, msg) ==
    IF msg.fails = "signature"
    THEN [ctx |-> ctx, err |-> "ed25519 verification failed"]
    ELSE IF msg.fails = "version"
    THEN [ctx |-> ctx, err |-> "version mismatch"]
    ELSE IF ctx.Round > msg.Round
    THEN [ctx |-> ctx, err |-> "round mismatch"]
    ELSE IF ctx.Round < msg.Round \/ ctx.Step < msg.Step
    THEN [ctx |-> [ctx EXCEPT !.Queue[<<msg.Round, msg.Step>>] = Append(@, msg)],
          err |-> NoError]
    ELSE IF msg.fails = "chain"
    THEN [ctx |-> ctx, err |-> "voter is on a different chain"]
    ELSE LET here == <<ctx.Round, ctx.Step>>
             queue == ctx.Queue[here]
             r == IF Len(queue) > 0
                  THEN Process([ctx EXCEPT !.Queue[here] = Tail(queue)], Head(queue))
                  ELSE [ctx |-> ctx, err |-> NoError]
         IN IF r.err # NoError THEN r ELSE verifyPayload(r.ctx, msg)

\* ------------------------------------------------------------------------
\* The second-step reducer and the verification of reduction votes
\* ------------------------------------------------------------------------
MaxRedStep == 4

MaxForwarded == 1

\* the votes of one hash at which the aggregator halts the reduction
QuorumVotes == 2

ConsensusTimeOut == 5

ConsensusTimeThreshold == 10

emptyHash == 0

\* a nil hash
nilHash == 0 - 1

\* the StepVotes of a reduction step
StepVotes(step) == [step |-> step]

VotedHash == 1

\* a reduction event: whether it unmarshals, whether its BLS signature
\* verifies for the BLS key of its header, and whether that key is a member
\* of the committee of its round and step
ReductionEvents ==
    [unmarshalOk : BOOLEAN, blsOk : BOOLEAN, member : BOOLEAN, hash : {VotedHash}]

\* the reduction events that vote for the empty hash
EmptyReductionEvents ==
    [unmarshalOk : BOOLEAN, blsOk : BOOLEAN, member : BOOLEAN, hash : {emptyHash}]

\* the Reducer after NewComponent and Initialize: the reduction listener is
\* paused, no timer runs and there is no aggregator. fired says that the
\* timer has expired and its call of Halt has not run yet. out holds the topics
\* sent through the signer, channel the events forwarded after
\* BlockHandler.Verify, emptyHalts the empty halts in a row so far
NewComponent(timeOut) ==
    [timeOut |-> timeOut, timer |-> 0, step |-> 0, paused |-> TRUE, aggregator |-> Nil,
     out |-> <<>>, channel |-> <<>>, emptyHalts |-> 0, fired |-> FALSE]

\* stepVotesAreValid that only counts the StepVotes
stepVotesAreTwo(svs) == Len(svs) = 2

stepVotesAreValid(svs) == Len(svs) = 2 /\ svs[1] # Nil /\ svs[2] # Nil

sendAgreement(r) == [r EXCEPT !.out = Append(@, "Agreement")]

sendReduction(r) == [r EXCEPT !.out = Append(@, "Reduction")]

\* Halt that sends an Agreement whatever the hash and the StepVotes are
HaltAlwaysAgrees(r, hash, svs, amMember) ==
    LET played == [r EXCEPT !.timer = 0, !.paused = TRUE, !.step = @ + 1,
                            !.emptyHalts = IF hash = emptyHash THEN @ + 1 ELSE 0]
        agreed == IF amMember THEN sendAgreement(played) ELSE played
    IN [agreed EXCEPT !.out = Append(@, "Regeneration")]

\* Halt: amMember is handler.AmMember for the round and the step played
Halt(r, hash, svs, amMember) ==
    LET played == [r EXCEPT !.timer = 0, !.paused = TRUE, !.step = @ + 1,
                            !.emptyHalts = IF hash = emptyHash THEN @ + 1 ELSE 0]
        agreed == IF hash # nilHash /\ hash # emptyHash /\ stepVotesAreValid(svs) /\ amMember
                  THEN sendAgreement(played)
                  ELSE played
    IN [agreed EXCEPT !.out = Append(@, "Regeneration")]

\* startReduction that does not start the timer
startReductionNoTimer(r, sv) == [r EXCEPT !.aggregator = [sv |-> sv, votes |-> <<>>]]

\* Finalize: the reduction listener is paused and the timer stopped
Finalize(r) == [r EXCEPT !.paused = TRUE, !.timer = 0]

startReduction(r, sv) ==
    [r EXCEPT !.timer = r.timeOut, !.aggregator = [sv |-> sv, votes |-> <<>>]]

\* CollectStepVotes that does not play the event player
CollectStepVotesNoPlay(r, e, amMember) ==
    IF e.payload = "malformed" THEN [r |-> r, err |-> "unmarshal failed"]
    ELSE LET started == startReduction(r, IF e.payload = "votes" THEN StepVotes(1) ELSE Nil)
             resumed == [started EXCEPT !.paused = FALSE]
         IN [r |-> IF amMember THEN sendReduction(resumed) ELSE resumed, err |-> NoError]

\* CollectStepVotes: e.payload is "empty", "malformed" or "votes"
CollectStepVotes(r, e, amMember) ==
    IF e.payload = "malformed"
    THEN [r |-> r, err |-> "unmarshal failed"]
    ELSE LET started == startReduction(r, IF e.payload = "votes" THEN StepVotes(1) ELSE Nil)
             resumed == [started EXCEPT !.step = @ + 1, !.paused = FALSE]
         IN [r |-> IF amMember THEN sendReduction(resumed) ELSE resumed, err |-> NoError]

\* the aggregator halts the reduction with both StepVotes when the votes of
\* the hash reach the quorum
collectVote(r, ev, amMember) ==
    LET votes == Append(r.aggregator.votes, ev)
        kept == [r EXCEPT !.aggregator.votes = votes]
    IN IF Cardinality({i \in 1..Len(votes) : votes[i].hash = ev.hash}) = QuorumVotes
       THEN Halt(kept, ev.hash, <<r.aggregator.sv, StepVotes(2)>>, amMember)
       ELSE kept

\* a filter that lets every sender through
FilterNobody(hdr) == FALSE

Filter(hdr) == ~hdr.member

\* Collect without the verification of the BLS signature
CollectNoSignature(r, e, amMember) ==
    IF ~e.unmarshalOk THEN [r |-> r, err |-> "unmarshal failed"]
    ELSE [r |-> collectVote(r, e, amMember), err |-> NoError]

Collect(r, e, amMember) ==
    IF ~e.unmarshalOk THEN [r |-> r, err |-> "unmarshal failed"]
    ELSE IF ~e.blsOk THEN [r |-> r, err |-> "BLS verification failed"]
    ELSE [r |-> collectVote(r, e, amMember), err |-> NoError]

\* BlockHandler.Verify
BlockHandlerVerify(ev) ==
    IF ~ev.blsOk THEN "BLS verification failed"
    ELSE IF ~ev.member THEN "block handler: voter not eligible to vote"
    ELSE NoError

\* the capacity of the channel initCollector makes
VoteChannelCap == 1

\* collector.createVote: nil for a signer that is not eligible to vote,
\* otherwise the signed vote
createVote(eligible) == IF ~eligible THEN Nil ELSE [signed |-> TRUE]

\* collector.Collect: the channel after the call, and the error
collectorCollect(channel, unmarshalOk, eligible) ==
    IF ~unmarshalOk THEN [channel |-> channel, err |-> "unmarshal failed"]
    ELSE [channel |-> Append(channel, createVote(eligible)), err |-> NoError]

\* ------------------------------------------------------------------------
\* The handshake of two peers
\* ------------------------------------------------------------------------
\* the highest major, minor and patch numbers of a version
MaxVersion == 2

\* the messages one direction of the connection holds before a write waits
MaxWire == 1

Versions == [Major : 1..MaxVersion, Minor : 1..MaxVersion, Patch : 1..MaxVersion]

\* protocol.NodeVer of the local node
NodeVer == [Major |-> 1, Minor |-> 1, Patch |-> 1]

\* what Writer.Handshake and Reader.Handshake do, in order
WriterHandshake == <<"writeLocalMsgVersion", "readVerAck", "readRemoteMsgVersion", "writeVerAck">>

\* a Reader that sends its Version before its VerAck
ReaderHandshakeVersionFirst ==
    <<"readRemoteMsgVersion", "writeLocalMsgVersion", "writeVerAck", "readVerAck">>

ReaderHandshake == <<"readRemoteMsgVersion", "writeVerAck", "writeLocalMsgVersion", "readVerAck">>

\* a peer before its handshake: its version, the calls ahead, the position
\* among them, the messages it has read, and what Handshake returned
NewPeer(version, calls) ==
    [version |-> version, calls |-> calls, pc |-> 1, read |-> <<>>, ret |-> "running"]

\* toWriter and toReader are the two directions of the connection
NewHandshake(writerVersion, readerVersion) ==
    [writer |-> NewPeer(writerVersion, WriterHandshake),
     reader |-> NewPeer(readerVersion, ReaderHandshake),
     toWriter |-> <<>>, toReader |-> <<>>]

VersionMessage(version) == [topic |-> "Version", version |-> version, decodes |-> TRUE]

VerAckMessage == [topic |-> "VerAck", version |-> NodeVer, decodes |-> TRUE]

\* the messages a peer of any kind can send
WireMessages ==
    [topic : {"Version"}, version : Versions, decodes : BOOLEAN]
      \cup {VerAckMessage, [topic |-> "Ping", version |-> NodeVer, decodes |-> TRUE]}

\* verifyVersion that accepts every version
verifyVersionAny(local, v) == NoError

verifyVersion(local, v) == IF local.Major # v.Major THEN "version mismatch" ELSE NoError

readRemoteMsgVersion(local, m) ==
    IF m.topic # "Version" THEN "did not receive the expected Version message"
    ELSE IF ~m.decodes THEN "decoding failed"
    ELSE verifyVersion(local, m.version)

readVerAck(m) ==
    IF m.topic # "VerAck" THEN "did not receive the expected VerAck message" ELSE NoError

\* the peer after its call at pc has returned err
Returned(peer, err) ==
    IF err # NoError THEN [peer EXCEPT !.ret = err]
    ELSE IF peer.pc = Len(peer.calls) THEN [peer EXCEPT !.pc = @ + 1, !.ret = NoError]
    ELSE [peer EXCEPT !.pc = @ + 1]

\* one call of a handshake: in is the direction the peer reads, out the one it
\* writes; a read waits for a message and a write for room
CanStep(peer, in, out) ==
    /\ peer.ret = "running"
    /\ IF peer.calls[peer.pc] \in {"readVerAck", "readRemoteMsgVersion"}
       THEN in # <<>> ELSE Len(out) < MaxWire

HandshakeStep(peer, in, out) ==
    LET call == peer.calls[peer.pc]
    IN IF call = "writeLocalMsgVersion"
       THEN [peer |-> Returned(peer, NoError), in |-> in,
             out |-> Append(out, VersionMessage(peer.version))]
       ELSE IF call = "writeVerAck"
       THEN [peer |-> Returned(peer, NoError), in |-> in, out |-> Append(out, VerAckMessage)]
       ELSE LET m == Head(in)
                err == IF call = "readVerAck" THEN readVerAck(m)
                       ELSE readRemoteMsgVersion(peer.version, m)
            IN [peer |-> Returned([peer EXCEPT !.read = Append(@, m)], err),
                in |-> Tail(in), out |-> out]

\* ------------------------------------------------------------------------
\* The goroutines that work on the chain, and its mutex
\* ------------------------------------------------------------------------
\* "listen" is the Listen loop, "block" the callback on the Block topic,
\* "update" a goroutine started for sendRoundUpdate
Tasks == {"listen", "block", "update"}

\* one step of a handler: what it does to Chain.mu when it starts ("lock",
\* "rlock", "unlock", "runlock" or "none"), the fields of the chain it reads
\* and writes, whether it waits for an rpc response, a channel or a timer,
\* and whether it starts the sendRoundUpdate goroutine
Step(mu, reads, writes, wait, go) ==
    [mu |-> mu, reads |-> reads, writes |-> writes, wait |-> wait, go |-> go]

\* AcceptBlock: Lock, the two checks, the consensus nodes, the new tip and
\* the removal of expired nodes, and the deferred Unlock
AcceptBlockSteps ==
    <<Step("lock", {"prevBlock", "p"}, {}, FALSE, FALSE),
      Step("none", {}, {"p", "bidList"}, FALSE, FALSE),
      Step("none", {}, {"prevBlock"}, FALSE, FALSE),
      Step("none", {}, {"p", "bidList"}, FALSE, FALSE),
      Step("unlock", {}, {}, FALSE, FALSE)>>

\* the steps of each handler, in the order of its statements
Handlers ==
    [onAcceptBlock |->
        AcceptBlockSteps \o
        <<Step("none", {"prevBlock", "p"}, {}, TRUE, FALSE),
          Step("none", {}, {"intermediateBlock", "lastCertificate"}, FALSE, FALSE),
          Step("none", {}, {}, FALSE, TRUE)>>,
     handleCertificateMessage |->
        <<Step("none", {}, {"lastCertificate"}, FALSE, FALSE),
          Step("none", {}, {}, TRUE, FALSE),
          Step("none", {"intermediateBlock"}, {}, FALSE, FALSE),
          Step("none", {}, {"intermediateBlock"}, FALSE, FALSE)>> \o
        AcceptBlockSteps \o
        <<Step("none", {}, {"intermediateBlock"}, FALSE, FALSE),
          Step("none", {}, {}, FALSE, TRUE)>>,
     rebuild |->
        <<Step("lock", {}, {}, FALSE, FALSE),
          Step("none", {}, {"prevBlock"}, FALSE, FALSE),
          Step("none", {"prevBlock"},
               {"p", "bidList", "intermediateBlock", "lastCertificate"}, FALSE, FALSE),
          Step("none", {}, {}, TRUE, FALSE),
          Step("unlock", {}, {}, FALSE, FALSE)>>,
     provideLastBlock |->
        <<Step("rlock", {"prevBlock"}, {}, FALSE, FALSE),
          Step("runlock", {}, {}, FALSE, FALSE)>>,
     provideLastCertificate |->
        <<Step("none", {"lastCertificate"}, {}, FALSE, FALSE)>>,
     provideRoundResults |->
        <<Step("none", {"intermediateBlock", "lastCertificate"}, {}, FALSE, FALSE)>>,
     processCandidateVerificationRequest |->
        <<Step("none", {"intermediateBlock"}, {}, FALSE, FALSE)>>,
     sendRoundUpdate |->
        <<Step("none", {"intermediateBlock", "p", "bidList"}, {}, FALSE, FALSE)>>]

\* the handlers each task is started with
TaskHandlers ==
    [listen |-> {"handleCertificateMessage", "rebuild", "provideLastBlock",
                 "provideLastCertificate", "provideRoundResults",
                 "processCandidateVerificationRequest"},
     block |-> {"onAcceptBlock"},
     update |-> {}]

IdleTask == [handler |-> "idle", pc |-> 0, holds |-> "none"]

\* no goroutine works on the chain
IdleTasks == [t \in Tasks |-> IdleTask]

\* the step the task is in
AtStep(task) ==
    IF task.pc = 0 THEN Step("none", {}, {}, FALSE, FALSE)
    ELSE Handlers[task.handler][task.pc]

\* sync.RWMutex: Lock waits for every holder, RLock for a writer
CanEnter(ts, t, step) ==
    CASE step.mu = "lock" -> \A u \in Tasks \ {t} : ts[u].holds = "none"
      [] step.mu = "rlock" -> \A u \in Tasks \ {t} : ts[u].holds # "W"
      [] OTHER -> TRUE

\* what the task holds of the mutex once it is in the step
Holds(held, step) ==
    CASE step.mu = "lock" -> "W"
      [] step.mu = "rlock" -> "R"
      [] step.mu \in {"unlock", "runlock"} -> "none"
      [] OTHER -> held

\* the task t enters step pc of the handler h; a go statement starts the
\* sendRoundUpdate goroutine
Enter(ts, t, h, pc) ==
    LET step == Handlers[h][pc]
        entered == [ts EXCEPT ![t] = [handler |-> h, pc |-> pc,
                                      holds |-> Holds(ts[t].holds, step)]]
    IN IF step.go /\ ts["update"].pc = 0
       THEN [entered EXCEPT !["update"] = [handler |-> "sendRoundUpdate", pc |-> 1,
                                           holds |-> "none"]]
       ELSE entered

\* ------------------------------------------------------------------------
\* State
\* ------------------------------------------------------------------------
VARIABLES
    prevBlock,          \* Chain.prevBlock
    intermediateBlock,  \* Chain.intermediateBlock, Nil when not held
    lastCertificate,    \* Chain.lastCertificate, Nil when not set
    p,                  \* Chain.p
    bidList,            \* Chain.bidList
    db,                 \* the blocks stored in the database
    counter,            \* blocks remaining of the chainsync.Counter
    pendingRU,          \* goroutines that will call sendRoundUpdate, each with
                        \* the intermediate block installed when it was started
    rr,                 \* the requestRoundResults call of onAcceptBlock in progress
    last,               \* the operation that ran last, its result and its events
    panicked,           \* the process panicked
    ctx,                \* the user.Context of msg.Process
    arrivals,           \* the messages handed to msg.Process so far, and whether
                        \* each was parked
    red,                \* the second-step Reducer
    voteChannel,        \* the channel of the voting collector, of capacity 1
    hs,                 \* the two peers of a handshake and the connection
                        \* between them
    tasks               \* the goroutines that work on the chain, each with the
                        \* handler it runs and its position in it

vars == <<prevBlock, intermediateBlock, lastCertificate, p, bidList, db, counter,
          pendingRU, rr, last, panicked, ctx, arrivals, red, voteChannel, hs, tasks>>

chainVars == <<prevBlock, intermediateBlock, lastCertificate, p, bidList, db, counter,
               pendingRU, rr, panicked>>

msgVars == <<ctx, arrivals, red, voteChannel, hs, tasks>>

Chain ==
    [prevBlock |-> prevBlock, intermediateBlock |-> intermediateBlock,
     lastCertificate |-> lastCertificate, p |-> p, bidList |-> bidList,
     db |-> db, counter |-> counter]

\* the bound on the stakes of a provisioner
StakesInBound(c) == \A k \in DOMAIN c.p.Members : Len(c.p.Members[k]) <= MaxStakes

SetChain(c) ==
    /\ StakesInBound(c)
    /\ prevBlock' = c.prevBlock
    /\ intermediateBlock' = c.intermediateBlock
    /\ lastCertificate' = c.lastCertificate
    /\ p' = c.p
    /\ bidList' = c.bidList
    /\ db' = c.db
    /\ counter' = c.counter

Idle == [waiting |-> FALSE, round |-> 0, chan |-> <<>>]

Op(name, err, events, arg, x) ==
    [op |-> name, err |-> err, events |-> events, arg |-> arg, X |-> x]

\* ------------------------------------------------------------------------
\* Inputs
\* ------------------------------------------------------------------------
TxChoices ==
    {<<>>} \cup {<<StakeTx(k, l), BidTx(x, l)>> : k \in Keys, x \in BidIds, l \in Locks}

TimestampAt(h) == MockTimestamp + h

\* the seed of a block is derived from the seed of the block before it
NextSeed(seed) == (seed + 1) % SeedMod

\* well-formed blocks on top of the block b
Successors(b) ==
    {NewBlock(b.Height + 1, b.Hash, NextSeed(b.Seed), TimestampAt(b.Height + 1), txs, TRUE) :
        txs \in TxChoices}

\* blocks that do not follow b: failing the stateless checks, of a wrong
\* height, with a wrong previous hash
Malformed(b) ==
    {NewBlock(b.Height + 1, b.Hash, NextSeed(b.Seed), TimestampAt(b.Height + 1), <<>>, FALSE),
     NewBlock(b.Height + 2, b.Hash, NextSeed(b.Seed), TimestampAt(b.Height + 2), <<>>, TRUE),
     NewBlock(b.Height + 1, b.PrevBlockHash, NextSeed(b.Seed), TimestampAt(b.Height + 1),
              <<>>, TRUE)}

CertChoices(h) == {EmptyCertificate} \cup {Cert(h, {k}) : k \in Keys}

Held == IF intermediateBlock = Nil THEN {} ELSE {intermediateBlock}

InBound(blks) == {b \in blks : b.Height <= MaxHeight}

\* the certificate the agreement component decides for the block hash h
Decided(h) == {Cert(h, {k}) : k \in Keys}

\* a block without transactions on top of the block b
Plain(b) ==
    NewBlock(b.Height + 1, b.Hash, NextSeed(b.Seed), TimestampAt(b.Height + 1), <<>>, TRUE)

\* blocks a peer may send: successors of the tip with a decided certificate,
\* one without a certificate, blocks that do not follow the tip, and the tip
\* itself once more
PeerBlocks ==
    UNION {{WithCertificate(b, cert) : cert \in Decided(b.Hash)} :
             b \in InBound(Successors(prevBlock))}
        \cup InBound({Plain(prevBlock)} \cup Malformed(prevBlock))
        \cup {prevBlock}

\* a candidate of an earlier round: a sibling of the intermediate block
StaleCandidates == {Plain(prevBlock)}

\* candidate blocks the candidate store may hold
CandidateBlocks ==
    InBound(UNION {Successors(x) : x \in Held} \cup StaleCandidates)

\* candidate messages: a candidate block and the certificate of the round
\* before it, which is the certificate of the intermediate block
Candidates ==
    {[Block |-> b, Certificate |-> cert] :
        b \in CandidateBlocks,
        cert \in UNION {CertChoices(x.Hash) : x \in IF Held = {} THEN {prevBlock} ELSE Held}}

\* candidates offered for verification
VerificationRequests ==
    InBound(StaleCandidates \cup {Plain(x) : x \in Held} \cup UNION {Malformed(x) : x \in Held})

WrongPrevious ==
    {NewBlock(prevBlock.Height + 1, prevBlock.PrevBlockHash, NextSeed(prevBlock.Seed),
              TimestampAt(prevBlock.Height + 1), <<>>, TRUE)}

\* answers of peers to a GetRoundResults query: an intermediate block and its
\* certificate
RoundResults ==
    UNION {{[Block |-> b, Certificate |-> cert] : cert \in Decided(b.Hash)} :
             b \in InBound({Plain(prevBlock)} \cup WrongPrevious)}
    \cup {[Block |-> b, Certificate |-> EmptyCertificate] : b \in InBound({Plain(prevBlock)})}

\* ------------------------------------------------------------------------
\* Initial state: the chain as chain.New leaves it
\* ------------------------------------------------------------------------
InitDBs == {<<Genesis>>, <<Genesis, Plain(Genesis)>>}

\* the initial states over the databases dbs, with last drawn from lasts
InitAll(dbs, lasts, handshakes) ==
    \E d \in dbs :
        LET c == New(d)
        IN /\ prevBlock = c.prevBlock
           /\ intermediateBlock = c.intermediateBlock
           /\ lastCertificate = c.lastCertificate
           /\ p = c.p
           /\ bidList = c.bidList
           /\ db = c.db
           /\ counter = c.counter
           /\ pendingRU = <<>>
           /\ rr = Idle
           /\ last \in lasts
           /\ panicked = FALSE
           /\ ctx = NewContext
           /\ arrivals = <<>>
           /\ red = NewComponent(ConsensusTimeOut)
           /\ voteChannel = <<>>
           /\ hs \in handshakes
           /\ tasks = IdleTasks

InitWith(dbs, lasts) == InitAll(dbs, lasts, {NewHandshake(NodeVer, NodeVer)})

InitFrom(dbs) == InitWith(dbs, {Op("New", NoError, <<>>, Nil, Nil)})

Init == InitFrom(InitDBs)

\* the node starts on a genesis block that carries consensus transactions
GenesisDBs == {<<GenesisWithNodes>>}

InitGenesis == InitFrom(GenesisDBs)

\* Bid lists for the check of removeExpiredBids alone: up to MaxBidListLen
\* bids with different X, added in any order with any lock, so that their
\* end heights lie anywhere from FirstRound to FirstRound + MaxEndOffset
MaxBidListLen == 3

MaxEndOffset == 2

\* the first round for which AcceptBlock removes expired bids
FirstRound == MockHeight + StakeOffset

BidEnds == FirstRound..(FirstRound + MaxEndOffset)

Rounds == FirstRound..(FirstRound + MaxEndOffset + 1)

BidLists ==
    UNION {{s \in [1..n -> {[X |-> x, M |-> x, EndHeight |-> e] : x \in 1..MaxBidListLen, e \in BidEnds}] :
              \A i, j \in 1..n : i # j => ~BidEquals(s[i], s[j])} : n \in 0..MaxBidListLen}

InitBids ==
    LET c == New(<<Genesis>>)
    IN /\ prevBlock = c.prevBlock
       /\ intermediateBlock = c.intermediateBlock
       /\ lastCertificate = c.lastCertificate
       /\ p = c.p
       /\ bidList \in BidLists
       /\ db = c.db
       /\ counter = c.counter
       /\ pendingRU = <<>>
       /\ rr = Idle
       /\ last = Op("New", NoError, <<>>, Nil, Nil)
       /\ panicked = FALSE
       /\ ctx = NewContext
       /\ arrivals = <<>>
       /\ red = NewComponent(ConsensusTimeOut)
       /\ voteChannel = <<>>
       /\ hs = NewHandshake(NodeVer, NodeVer)
       /\ tasks = IdleTasks

\* ------------------------------------------------------------------------
\* Actions
\* ------------------------------------------------------------------------
\* the synchroniser starts the counter
StartSyncing ==
    /\ ~panicked
    /\ ~IsSyncing(counter)
    /\ \E n \in 1..MaxSync : counter' = n
    /\ last' = Op("StartSyncing", NoError, <<>>, Nil, Nil)
    /\ UNCHANGED <<prevBlock, intermediateBlock, lastCertificate, p, bidList, db,
                   pendingRU, rr, panicked>>
    /\ UNCHANGED msgVars

\* the callback on the Block topic, up to the wait for round results
OnAcceptBlock ==
    /\ ~panicked
    /\ ~rr.waiting
    /\ \E blk \in PeerBlocks, storeOk \in BOOLEAN :
         LET r == onAcceptBlock(Chain, blk, storeOk)
         IN /\ SetChain(r.c)
            /\ rr' = IF r.request
                     THEN [waiting |-> TRUE, round |-> blk.Height + 1, chan |-> <<>>]
                     ELSE Idle
            /\ last' = Op(IF r.request THEN "onAcceptBlock.request" ELSE "onAcceptBlock",
                          r.err, r.events, IF IsSyncing(counter) THEN blk ELSE Nil, Nil)
    /\ UNCHANGED <<pendingRU, panicked>>
    /\ UNCHANGED msgVars

\* a peer's answer is published on the RoundResults topic
RoundResultsArrive ==
    /\ ~panicked
    /\ rr.waiting
    /\ Len(rr.chan) < MaxChan
    /\ Len(rr.chan) < RoundResultsChanCap
    /\ \E cm \in RoundResults : rr' = [rr EXCEPT !.chan = Append(@, cm)]
    /\ last' = Op("RoundResults", NoError, <<>>, Nil, Nil)
    /\ UNCHANGED <<prevBlock, intermediateBlock, lastCertificate, p, bidList, db,
                   counter, pendingRU, panicked>>
    /\ UNCHANGED msgVars

\* requestRoundResults takes the next response from its channel
RoundResultsReceive ==
    /\ ~panicked
    /\ rr.waiting
    /\ rr.chan # <<>>
    /\ LET cm == Head(rr.chan)
       IN IF ValidRoundResults(Chain, cm)
          THEN /\ Len(pendingRU) < MaxPending
               /\ intermediateBlock' = WithCertificate(cm.Block, cm.Certificate)
               /\ lastCertificate' = cm.Certificate
               /\ pendingRU' = Append(pendingRU, intermediateBlock')
               /\ rr' = Idle
               /\ last' = Op("onAcceptBlock.return", NoError, <<>>, cm, intermediateBlock')
          ELSE /\ rr' = [rr EXCEPT !.chan = Tail(@)]
               /\ last' = Op("requestRoundResults.skip", NoError, <<>>, cm, Nil)
               /\ UNCHANGED <<intermediateBlock, lastCertificate, pendingRU>>
    /\ UNCHANGED <<prevBlock, p, bidList, db, counter, panicked>>
    /\ UNCHANGED msgVars

\* the timer expires and onAcceptBlock goes on without looking at the error
RoundResultsTimeoutAssigns ==
    /\ ~panicked
    /\ rr.waiting
    /\ Len(pendingRU) < MaxPending
    /\ rr' = Idle
    /\ intermediateBlock' = Nil
    /\ lastCertificate' = Nil
    /\ pendingRU' = Append(pendingRU, Nil)
    /\ last' = Op("onAcceptBlock.return", "request timeout", <<>>, Nil, Nil)
    /\ UNCHANGED <<prevBlock, p, bidList, db, counter, panicked>>
    /\ UNCHANGED msgVars

\* the timer of requestRoundResults expires
RoundResultsTimeout ==
    /\ ~panicked
    /\ rr.waiting
    /\ rr' = Idle
    /\ last' = Op("onAcceptBlock.return", "request timeout", <<>>, Nil, Nil)
    /\ UNCHANGED <<prevBlock, intermediateBlock, lastCertificate, p, bidList, db,
                   counter, pendingRU, panicked>>
    /\ UNCHANGED msgVars

\* the Listen loop takes a certificate from the agreement component
HandleCertificateMessage ==
    /\ ~panicked
    /\ Len(pendingRU) < MaxPending
    /\ \E cm \in Candidates, found \in BOOLEAN, storeOk \in BOOLEAN :
       \E cert \in Decided(cm.Block.Hash) :
         LET cMsg == [hash |-> cm.Block.Hash, cert |-> cert]
             r == handleCertificateMessage(Chain, cMsg, IF found THEN cm ELSE Nil, storeOk)
         IN /\ SetChain(r.c)
            /\ pendingRU' = IF r.go THEN Append(pendingRU, r.c.intermediateBlock)
                            ELSE pendingRU
            /\ last' = Op("handleCertificateMessage", r.ret, r.events,
                          IF r.go THEN [cMsg |-> cMsg, resp |-> cm] ELSE Nil, Nil)
    /\ UNCHANGED <<rr, panicked>>
    /\ UNCHANGED msgVars

\* a goroutine started by handleCertificateMessage or onAcceptBlock runs
SendRoundUpdate ==
    /\ ~panicked
    /\ \E i \in 1..Len(pendingRU) :
         /\ pendingRU' = SubSeq(pendingRU, 1, i - 1) \o SubSeq(pendingRU, i + 1, Len(pendingRU))
         /\ IF intermediateBlock = Nil
            THEN /\ panicked' = TRUE
                 /\ last' = Op("sendRoundUpdate", "panic", <<>>, Nil, pendingRU[i])
            ELSE /\ panicked' = FALSE
                 /\ last' = Op("sendRoundUpdate", NoError, <<RoundUpdateEvent(Chain)>>,
                               Nil, pendingRU[i])
    /\ UNCHANGED <<prevBlock, intermediateBlock, lastCertificate, p, bidList, db,
                   counter, rr>>
    /\ UNCHANGED msgVars

\* the callback on the Initialization topic
OnInitialization ==
    /\ ~panicked
    /\ IF intermediateBlock = Nil
       THEN /\ panicked' = TRUE
            /\ last' = Op("onInitialization", "panic", <<>>, Nil, Nil)
       ELSE /\ panicked' = FALSE
            /\ last' = Op("onInitialization", NoError, <<RoundUpdateEvent(Chain)>>,
                          Nil, intermediateBlock)
    /\ UNCHANGED <<prevBlock, intermediateBlock, lastCertificate, p, bidList, db,
                   counter, pendingRU, rr>>
    /\ UNCHANGED msgVars

\* the Listen loop takes a VerifyCandidateBlock request
ProcessCandidateVerificationRequest ==
    /\ ~panicked
    /\ \E b \in VerificationRequests :
         LET cm == [Block |-> b, Certificate |-> EmptyCertificate]
         IN last' = Op("processCandidateVerificationRequest",
                       processCandidateVerificationRequest(Chain, cm), <<>>, cm, Nil)
    /\ UNCHANGED <<prevBlock, intermediateBlock, lastCertificate, p, bidList, db,
                   counter, pendingRU, rr, panicked>>
    /\ UNCHANGED msgVars

\* the Listen loop takes a RebuildChain request
Rebuild ==
    /\ ~panicked
    /\ \E clearOk \in BOOLEAN, walletOk \in BOOLEAN :
         LET r == rebuild(Chain, clearOk, walletOk)
         IN /\ SetChain(r.c)
            /\ panicked' = r.panic
            /\ last' = Op("rebuild", IF r.panic THEN "panic" ELSE r.err, r.events, Nil, Nil)
    /\ UNCHANGED <<pendingRU, rr>>
    /\ UNCHANGED msgVars

Next ==
    \/ StartSyncing
    \/ OnAcceptBlock
    \/ RoundResultsArrive
    \/ RoundResultsReceive
    \/ RoundResultsTimeout
    \/ HandleCertificateMessage
    \/ SendRoundUpdate
    \/ Rebuild

Spec == Init /\ [][Next]_vars

\* the chain with the Initialization topic published as well
NextRU == Next \/ OnInitialization

SpecRU == Init /\ [][NextRU]_vars

\* the chain with candidate verification requests as well
NextVerify == Next \/ ProcessCandidateVerificationRequest

SpecVerify == Init /\ [][NextVerify]_vars

\* the chain on a genesis block with a stake and a bid
SpecGenesis == InitGenesis /\ [][Next]_vars

\* removeExpiredBids applied to the bid list, for any round
RemoveExpiredBids ==
    /\ \E round \in Rounds :
         /\ bidList' = removeExpiredBids(bidList, round)
         /\ last' = Op("removeExpiredBids", NoError, <<>>, round, bidList)
    /\ UNCHANGED <<prevBlock, intermediateBlock, lastCertificate, p, db, counter,
                   pendingRU, rr, panicked>>
    /\ UNCHANGED msgVars

NextBids == RemoveExpiredBids

SpecBids == InitBids /\ [][NextBids]_vars

\* a message arrives and is handed to msg.Process
ProcessMsg ==
    /\ Len(arrivals) < MaxArrivals
    /\ \E r \in 1..MaxRound, s \in 1..MaxStep, f \in Failures :
         LET msg == [id |-> Len(arrivals) + 1, Round |-> r, Step |-> s, fails |-> f]
             res == Process(ctx, msg)
             queue == res.ctx.Queue[<<r, s>>]
         IN /\ ctx' = res.ctx
            /\ arrivals' = Append(arrivals,
                                  [msg |-> msg,
                                   parked |-> \E i \in 1..Len(queue) : queue[i] = msg])
            /\ last' = Op("Process", res.err, <<>>, msg, Nil)
    /\ UNCHANGED chainVars
    /\ UNCHANGED <<red, voteChannel, hs, tasks>>

\* the consensus moves the context to the next step, or to the first step of
\* the next round
Advance ==
    /\ \/ /\ ctx.Step < MaxStep
          /\ ctx' = [ctx EXCEPT !.Step = @ + 1]
       \/ /\ ctx.Round < MaxRound
          /\ ctx' = [ctx EXCEPT !.Round = @ + 1, !.Step = 1]
    /\ last' = Op("Advance", NoError, <<>>, Nil, Nil)
    /\ UNCHANGED chainVars
    /\ UNCHANGED arrivals
    /\ UNCHANGED <<red, voteChannel, hs, tasks>>

NextMsg == ProcessMsg \/ Advance

InitMsg == InitFrom({<<Genesis>>})

SpecMsg == InitMsg /\ [][NextMsg]_vars

\* the StepVotes of the first step are published
StepVotesEvent ==
    /\ red.step + 2 <= MaxRedStep
    /\ \E payload \in {"empty", "malformed", "votes"}, amMember \in BOOLEAN :
         LET e == [payload |-> payload, hash |-> VotedHash]
             res == CollectStepVotes(red, e, amMember)
         IN /\ red' = res.r
            /\ last' = Op("CollectStepVotes", res.err, <<>>, e, [amMember |-> amMember])
    /\ UNCHANGED <<chainVars, ctx, arrivals, voteChannel, hs, tasks>>

\* the timer of the reduction fires
TimerHalt ==
    /\ red.timer # 0
    /\ \E amMember \in BOOLEAN :
         /\ red' = Halt(red, emptyHash, <<>>, amMember)
         /\ last' = Op("Halt", NoError, <<>>, [hash |-> emptyHash],
                    [amMember |-> amMember])
    /\ UNCHANGED <<chainVars, ctx, arrivals, voteChannel, hs, tasks>>

\* the filtering listener of the reducer is handed the Reduction event e
ListenerCollects(e, amMember) ==
    IF Filter(e)
    THEN /\ last' = Op("Filter", NoError, <<>>, e, [amMember |-> amMember])
         /\ UNCHANGED red
    ELSE LET res == Collect(red, e, amMember)
         IN /\ red' = res.r
            /\ last' = Op("Collect", res.err, <<>>, e, [amMember |-> amMember])

\* a Reduction event that votes for a block reaches the listener
ReductionEvent ==
    /\ ~red.paused
    /\ \E e \in ReductionEvents, amMember \in BOOLEAN : ListenerCollects(e, amMember)
    /\ UNCHANGED <<chainVars, ctx, arrivals, voteChannel, hs, tasks>>

\* a Reduction event that votes for the empty hash reaches the listener
EmptyReductionEvent ==
    /\ ~red.paused
    /\ \E e \in EmptyReductionEvents, amMember \in BOOLEAN : ListenerCollects(e, amMember)
    /\ UNCHANGED <<chainVars, ctx, arrivals, voteChannel, hs, tasks>>

\* a block reduction event is verified by the BlockHandler and forwarded
BlockEvent ==
    /\ Len(red.channel) < MaxForwarded
    /\ \E e \in ReductionEvents :
         LET err == BlockHandlerVerify(e)
         IN /\ red' = IF err = NoError THEN [red EXCEPT !.channel = Append(@, e)] ELSE red
            /\ last' = Op("BlockHandler.Verify", err, <<>>, e, Nil)
    /\ UNCHANGED <<chainVars, ctx, arrivals, voteChannel, hs, tasks>>

\* a block reduction message is handed to msg.Process
ProcessReduction ==
    /\ Len(arrivals) < MaxForwarded
    /\ \E s \in 1..MaxStep, f \in {"none", "signature", "payload"},
          member \in BOOLEAN, blsOk \in BOOLEAN :
         LET msg == [id |-> Len(arrivals) + 1, Round |-> ctx.Round, Step |-> s, fails |-> f,
                     pl |-> [member |-> member, blsOk |-> blsOk]]
             res == Process(ctx, msg)
             queue == res.ctx.Queue[<<msg.Round, s>>]
         IN /\ ctx' = res.ctx
            /\ arrivals' = Append(arrivals,
                                  [msg |-> msg,
                                   parked |-> \E i \in 1..Len(queue) : queue[i] = msg])
            /\ last' = Op("Process", res.err, <<>>, msg, Nil)
    /\ UNCHANGED chainVars
    /\ UNCHANGED <<red, voteChannel, hs, tasks>>

\* the collector of the voting package is handed an event to vote on; the
\* send blocks while the channel is full
CollectorCollect ==
    /\ \E unmarshalOk \in BOOLEAN, eligible \in BOOLEAN :
         LET res == collectorCollect(voteChannel, unmarshalOk, eligible)
         IN /\ Len(res.channel) <= VoteChannelCap
            /\ voteChannel' = res.channel
            /\ last' = Op("collector.Collect", res.err, <<>>, [unmarshalOk |-> unmarshalOk],
                         [amMember |-> eligible])
    /\ UNCHANGED <<chainVars, ctx, arrivals, red, hs, tasks>>

\* the publisher takes the head of the vote channel
ReceiveVote ==
    /\ voteChannel # <<>>
    /\ voteChannel' = Tail(voteChannel)
    /\ last' = Op("voteChannel.receive", NoError, <<>>, Head(voteChannel), Nil)
    /\ UNCHANGED <<chainVars, ctx, arrivals, red, hs, tasks>>

\* the reduction cycles of the second step
NextReduction ==
    \/ StepVotesEvent
    \/ TimerHalt
    \/ ReductionEvent
    \/ EmptyReductionEvent
    \/ CollectorCollect
    \/ ReceiveVote

SpecReduction == InitMsg /\ [][NextReduction]_vars

\* the ways a reduction vote is received
NextVotes == StepVotesEvent \/ ReductionEvent \/ BlockEvent \/ ProcessReduction

SpecVotes == InitMsg /\ [][NextVotes]_vars

\* the chain with the timer of requestRoundResults and the scheduled
\* goroutines running eventually
LiveSpec ==
    Init /\ [][Next]_vars /\ WF_vars(RoundResultsTimeout) /\ WF_vars(SendRoundUpdate)

\* ------------------------------------------------------------------------
\* Properties
\* ------------------------------------------------------------------------
Published(l, e) == \E i \in 1..Len(l.events) : l.events[i] = e

NoQuery(l) ==
    \A i \in 1..Len(l.events) :
        ~(l.events[i].topic = "Gossip" /\ l.events[i].kind = "GetRoundResults")

AcceptOps == {"onAcceptBlock", "onAcceptBlock.request", "handleCertificateMessage"}

AcceptErrors ==
    {"block verification failed", "certificate verification failed", "block storing failed"}

SameBlock(a, b) == WithCertificate(a, EmptyCertificate) = WithCertificate(b, EmptyCertificate)

\* C1: an accepting step replaces prevBlock only by a block that passes
\* CheckBlock against the previous prevBlock and CheckBlockCertificate against
\* the provisioners as they were before the step, and that is stored.
C1_PrevBlockVerifiedAndStored ==
    [][(prevBlock' # prevBlock /\ last'.op \in AcceptOps)
        => /\ CheckBlock(prevBlock, prevBlock')
           /\ CheckBlockCertificate(p, prevBlock')
           /\ prevBlock'.Height + 1 <= Len(db')
           /\ db'[prevBlock'.Height + 1] = prevBlock']_vars

\* a block of height 2, whose certificate is checked, was accepted from a peer
C1_Witness ==
    /\ last.op \in {"onAcceptBlock", "onAcceptBlock.request"}
    /\ last.err = NoError
    /\ prevBlock.Height = 2
    /\ Published(last, AcceptedBlockEvent(prevBlock))

\* C2: one intermediate block is held at most, and a step of
\* handleCertificateMessage that finalises it finds it at height
\* prevBlock.Height + 1 and makes it the tip, whatever ran before.
C2_FinalisedIntermediateFollowsTip ==
    /\ [](intermediateBlock = Nil \/ intermediateBlock.Height \in 1..MaxHeight)
    /\ [][(last'.op = "handleCertificateMessage" /\ prevBlock' # prevBlock)
           => /\ intermediateBlock # Nil
              /\ intermediateBlock.Height = prevBlock.Height + 1
              /\ prevBlock'.Hash = intermediateBlock.Hash]_vars

\* an intermediate block of height 2 was finalised
C2_Witness ==
    /\ last.op = "handleCertificateMessage"
    /\ last.err = NoError
    /\ prevBlock.Height = 2
    /\ intermediateBlock # Nil

\* C3: AcceptBlock on the block that the operation before it accepted changes
\* neither prevBlock, the provisioners, the bid list nor the stored blocks and
\* publishes no AcceptedBlock event.
C3_AcceptTwiceIsAcceptOnce ==
    [][(/\ Published(last, AcceptedBlockEvent(prevBlock))
        /\ last'.op = "onAcceptBlock"
        /\ last'.arg = prevBlock)
        => /\ UNCHANGED <<prevBlock, p, bidList, db>>
           /\ "AcceptedBlock" \notin Topics(last'.events)
           /\ last'.err = "block verification failed"]_vars

\* the tip, a block with transactions, was offered again and refused
C3_Witness ==
    /\ last.op = "onAcceptBlock"
    /\ last.arg = prevBlock
    /\ last.err = "block verification failed"
    /\ prevBlock.Txs # <<>>

\* C4: a failing AcceptBlock (block verification, certificate verification,
\* storing) leaves prevBlock, the provisioners and the bid list as they were
\* and publishes no AcceptedBlock event.
C4_FailedAcceptChangesNothing ==
    [][(\/ last'.op = "onAcceptBlock" /\ last'.err \in AcceptErrors
        \/ last'.op = "handleCertificateMessage"
             /\ last'.err = "could not accept intermediate block")
        => /\ UNCHANGED <<prevBlock, p, bidList>>
           /\ "AcceptedBlock" \notin Topics(last'.events)]_vars

\* C5: a handleCertificateMessage that succeeds makes the former intermediate
\* block the tip, the candidate's block the intermediate block and the
\* message's certificate the last certificate, and publishes the candidate's
\* block on the IntermediateBlock topic.
C5_CertificatePromotesIntermediate ==
    [][(last'.op = "handleCertificateMessage" /\ last'.err = NoError)
        => /\ intermediateBlock # Nil
           /\ SameBlock(prevBlock', intermediateBlock)
           /\ intermediateBlock' = last'.arg.resp.Block
           /\ lastCertificate' = last'.arg.cMsg.cert
           /\ Published(last', IntermediateBlockEvent(last'.arg.resp.Block))]_vars

\* a certificate message was handled whose certificate is not the candidate's
C5_Witness ==
    /\ last.op = "handleCertificateMessage"
    /\ last.err = NoError
    /\ last.arg.cMsg.cert # last.arg.resp.Certificate
    /\ intermediateBlock = last.arg.resp.Block
    /\ lastCertificate = last.arg.cMsg.cert

\* C6: a handleCertificateMessage that returns early leaves prevBlock and the
\* intermediate block as they were, publishes no IntermediateBlock event and
\* schedules no round update.
C6_EarlyReturnLeavesBlocks ==
    [][(last'.op = "handleCertificateMessage" /\ last'.err # NoError)
        => /\ prevBlock' = prevBlock
           /\ intermediateBlock' = intermediateBlock
           /\ "IntermediateBlock" \notin Topics(last'.events)
           /\ pendingRU' = pendingRU]_vars

\* C7: a RoundUpdate sent by a scheduled goroutine carries the height plus
\* one, the hash and the seed of the intermediate block that the scheduling
\* operation installed.
C7_RoundUpdateOfSchedulingBlock ==
    (last.op = "sendRoundUpdate" /\ last.err = NoError)
        => \A i \in 1..Len(last.events) :
               /\ last.events[i].Round = last.X.Height + 1
               /\ last.events[i].Hash = last.X.Hash
               /\ last.events[i].Seed = last.X.Seed

RoundResultsPass(cm) ==
    /\ CheckBlock(prevBlock, cm.Block)
    /\ CheckBlockCertificate(p, WithCertificate(cm.Block, cm.Certificate))

C10_SyncEndRequestsRoundResults ==
    /\ []((last.op \in {"onAcceptBlock", "onAcceptBlock.request"}
             /\ last.arg # Nil /\ last.err = NoError)
           => IF ~IsSyncing(counter)
              THEN /\ Published(last, GetRoundResultsEvent(last.arg.Height + 1))
                   /\ rr.waiting
              ELSE NoQuery(last) /\ ~rr.waiting)
    /\ []((last.op = "onAcceptBlock.return" /\ last.err = NoError)
           => /\ SameBlock(intermediateBlock, last.arg.Block)
              /\ lastCertificate = last.arg.Certificate
              /\ pendingRU # <<>>)
    /\ [][last'.op \in {"onAcceptBlock", "onAcceptBlock.request"}
           => /\ pendingRU' = pendingRU
              /\ "RoundUpdate" \notin Topics(last'.events)]_vars
    /\ ((last.op = "onAcceptBlock.return" /\ last.err = NoError)
          ~> (last.op = "sendRoundUpdate" \/ panicked))

\* the round update of an intermediate block received from a peer was sent
C10_Witness ==
    /\ last.op = "sendRoundUpdate"
    /\ last.err = NoError
    /\ last.X = intermediateBlock
    /\ intermediateBlock.Certificate # EmptyCertificate
    /\ lastCertificate = intermediateBlock.Certificate

\* C11: from the round-results query of onAcceptBlock to its return with
\* 'request timeout', no step of onAcceptBlock changes intermediateBlock or
\* lastCertificate, schedules a round update or publishes a RoundUpdate; the
\* timeout itself changes nothing of the chain.
C11_TimeoutLeavesState ==
    /\ [][(last'.op = "onAcceptBlock.return" /\ last'.err # NoError)
           => /\ last'.err = "request timeout"
              /\ UNCHANGED <<prevBlock, intermediateBlock, lastCertificate, p, bidList,
                             db, counter, pendingRU>>
              /\ last'.events = <<>>]_vars
    /\ [][last'.op \in {"onAcceptBlock.request", "requestRoundResults.skip"}
           => /\ UNCHANGED <<intermediateBlock, lastCertificate, pendingRU>>
              /\ "RoundUpdate" \notin Topics(last'.events)]_vars

\* the request timed out while an intermediate block was held
C11_Witness ==
    /\ last.op = "onAcceptBlock.return"
    /\ last.err = "request timeout"
    /\ intermediateBlock # Nil
    /\ prevBlock.Height >= 1

\* C12: onAcceptBlock publishes StopConsensus exactly when the counter is
\* syncing as the block arrives. Not syncing, it returns nil, publishes nothing
\* and changes nothing; syncing, StopConsensus is the first message it
\* publishes, ahead of those of AcceptBlock, also when the block is refused.
C12_StopConsensusWhenSyncing ==
    [][last'.op \in {"onAcceptBlock", "onAcceptBlock.request"}
        => IF IsSyncing(counter)
           THEN /\ last'.events # <<>>
                /\ last'.events[1] = StopConsensusEvent
                /\ \A i \in 2..Len(last'.events) : last'.events[i] # StopConsensusEvent
           ELSE /\ last'.err = NoError
                /\ last'.events = <<>>
                /\ UNCHANGED <<prevBlock, intermediateBlock, lastCertificate, p, bidList,
                               db, counter, pendingRU, rr>>]_vars

\* a block that fails verification arrived while syncing: consensus was halted
C12_Witness ==
    /\ last.op = "onAcceptBlock"
    /\ last.err = "block verification failed"
    /\ last.events = <<StopConsensusEvent>>
    /\ IsSyncing(counter)

\* the provisioners and the bid list that the transactions of the genesis block
\* g give a chain of height 0
ProvisionersOfGenesis(g) ==
    IF g.Txs = <<>> THEN NewProvisioners
    ELSE [Set |-> {1}, Members |-> (1 :> <<Stake(1, StakeOffset, GenesisLock)>>)]

BidListOfGenesis(g) ==
    IF g.Txs = <<>> THEN EmptyBidList
    ELSE <<[X |-> 1, M |-> 1, EndHeight |-> GenesisLock]>>

RebuiltBlocks ==
    /\ prevBlock.Height = 0
    /\ db = <<prevBlock>>
    /\ lastCertificate = EmptyCertificate
    /\ intermediateBlock # Nil
    /\ intermediateBlock.Height = MockHeight
    /\ intermediateBlock.Seed = ZeroSeed
    /\ intermediateBlock.Timestamp = MockTimestamp
    /\ intermediateBlock.PrevBlockHash = prevBlock.Hash

\* C13 (as the code has it): rebuild publishes StopConsensus first; when the
\* database cannot be cleared it answers the error and changes nothing; when it
\* succeeds prevBlock is the genesis block, lastCertificate the empty
\* certificate, intermediateBlock the mock block of height 1, and the
\* provisioners and the bid list are the ones restored from the stake and bid
\* transactions of the genesis block: empty only when it has none.
C13_RebuildRestoresGenesisState ==
    /\ [](last.op = "rebuild"
            => /\ last.events = <<StopConsensusEvent>>
               /\ last.err = NoError
                    => /\ RebuiltBlocks
                       /\ p = ProvisionersOfGenesis(prevBlock)
                       /\ bidList = BidListOfGenesis(prevBlock))
    /\ [][(last'.op = "rebuild" /\ last'.err # NoError /\ ~panicked')
           => /\ last'.err = "clear database failed"
              /\ UNCHANGED <<prevBlock, intermediateBlock, lastCertificate, p, bidList,
                             db>>]_vars

\* a chain that had finalised a block was rebuilt on a genesis block with nodes
C13_Witness ==
    /\ last.op = "rebuild"
    /\ last.err = NoError
    /\ ~panicked
    /\ pendingRU # <<>>
    /\ p.Set # {}

\* C13 (as stated): after a successful rebuild the provisioners and the bid
\* list are empty, prevBlock is the genesis block, lastCertificate the empty
\* certificate and intermediateBlock the mock block of height 1.
C13_RebuildEmptiesNodes ==
    (last.op = "rebuild" /\ last.err = NoError /\ ~panicked)
        => /\ RebuiltBlocks
           /\ p = NewProvisioners
           /\ bidList = EmptyBidList

StakesOf(pp, k) == IF k \in pp.Set THEN pp.Members[k] ELSE <<>>

StakeTxsFor(blk, k) ==
    {i \in 1..Len(blk.Txs) : blk.Txs[i].Type = "stake" /\ blk.Txs[i].PubKeyBLS = k}

\* the step accepts a block: it becomes the tip
Accepts == prevBlock' # prevBlock /\ last'.op \in AcceptOps

\* C14: when a block B is accepted, every provisioner holds afterwards the
\* stakes it held that are not expired and one more stake for each stake
\* transaction of B with its key, and the stakes added start at B.Height + 2,
\* for a new provisioner and for one that has stakes already.
C14_StakeStartsTwoAhead ==
    [][Accepts
        => \A k \in Keys :
             LET B == prevBlock'
                 old == StakesOf(p, k)
                 new == StakesOf(p', k)
                 kept == {i \in 1..Len(old) : old[i].EndHeight >= B.Height}
                 txs == StakeTxsFor(B, k)
                 AtStart(ss, I) == {i \in I : ss[i].StartHeight = B.Height + 2}
             IN /\ Len(new) = Cardinality(kept) + Cardinality(txs)
                /\ Cardinality(AtStart(new, 1..Len(new)))
                     = Cardinality(AtStart(old, kept)) + Cardinality(txs)]_vars

\* a block with a stake was accepted for a provisioner that had a stake already
C14_Witness ==
    /\ last.op \in AcceptOps
    /\ last.err = NoError
    /\ prevBlock.Height = 1
    /\ StakeTxsFor(prevBlock, 1) # {}
    /\ 1 \in p.Set
    /\ Len(p.Members[1]) = 2
    /\ p.Members[1][1].StartHeight = 2
    /\ p.Members[1][2].StartHeight = 3

BidTxsOf(blk) == {i \in 1..Len(blk.Txs) : blk.Txs[i].Type = "bid"}

HasBid(bl, x) == \E j \in 1..Len(bl) : bl[j].X = x

\* C15: when a block B is accepted, every bid transaction of B with lock L
\* whose bid was not in the bid list is in the bid list afterwards with
\* EndHeight = B.Height + L.
C15_BidEndsAtHeightPlusLock ==
    [][Accepts
        => \A i \in BidTxsOf(prevBlock') :
             LET tx == prevBlock'.Txs[i]
             IN ~HasBid(bidList, tx.X)
                  => \E j \in 1..Len(bidList') :
                       /\ bidList'[j].X = tx.X
                       /\ bidList'[j].EndHeight = prevBlock'.Height + tx.Lock]_vars

\* how many times the stake v occurs in the list ss
CountStake(ss, v) == Cardinality({i \in 1..Len(ss) : ss[i] = v})

\* C16: after a block B is accepted no provisioner holds a stake with
\* EndHeight < B.Height, every stake held before with EndHeight >= B.Height
\* is still held, every provisioner in the set holds a stake, and the keys of
\* the ordered set are those of the member map.
C16_ExpiredStakesRemoved ==
    [][Accepts
        => LET B == prevBlock'
           IN /\ p'.Set = DOMAIN p'.Members
              /\ \A k \in p'.Set :
                   /\ Len(p'.Members[k]) >= 1
                   /\ \A i \in 1..Len(p'.Members[k]) :
                        p'.Members[k][i].EndHeight >= B.Height
              /\ \A k \in p.Set : \A i \in 1..Len(p.Members[k]) :
                   LET v == p.Members[k][i]
                   IN v.EndHeight >= B.Height
                        => CountStake(StakesOf(p', k), v) >= CountStake(p.Members[k], v)]_vars

\* block 2 was accepted with a stake while the provisioner held the stake of
\* block 1, which ends at height 1: the old stake is gone, the new one is held
C16_Witness ==
    /\ last.op \in AcceptOps
    /\ last.err = NoError
    /\ prevBlock.Height = 2
    /\ Len(db) >= 3
    /\ StakeTxsFor(db[2], 1) # {}
    /\ StakeTxsFor(prevBlock, 1) # {}
    /\ 1 \in p.Set
    /\ \A i \in 1..Len(p.Members[1]) : p.Members[1][i].EndHeight = 2

\* how many times the bid b occurs in the list bl
CountBid(bl, b) == Cardinality({i \in 1..Len(bl) : bl[i] = b})

\* C17: after removeExpiredBids(round) the bid list holds no bid with
\* EndHeight < round and holds every bid of the list it was called on with
\* EndHeight >= round, once each.
C17_NoExpiredBidLeft ==
    last.op = "removeExpiredBids"
      => LET round == last.arg
             before == last.X
         IN /\ \A i \in 1..Len(bidList) : bidList[i].EndHeight >= round
            /\ \A i \in 1..Len(before) :
                 before[i].EndHeight >= round => CountBid(bidList, before[i]) = 1

\* the place in the channel of the message with this id, 0 when it was not sent
ChanIndex(id) ==
    IF \E i \in 1..Len(ctx.Chan) : ctx.Chan[i].msg.id = id
    THEN CHOOSE i \in 1..Len(ctx.Chan) : ctx.Chan[i].msg.id = id
    ELSE 0

\* the messages that were parked and fail none of the checks
ParkedValid == {i \in 1..Len(arrivals) : arrivals[i].parked /\ arrivals[i].msg.fails = "none"}

\* C18: a message that arrives while the context is at a round and a step,
\* and is sent to the channel, comes after every message that was parked for
\* that round and step before it arrived and that passes the checks: those
\* have all been sent to the channel before it.
C18_ParkedDeliveredBeforeLater ==
    \A e \in 1..Len(ctx.Chan) : \A i \in ParkedValid :
        LET sent == ctx.Chan[e]
            m == arrivals[i].msg
        IN (/\ ~arrivals[sent.msg.id].parked
            /\ m.Round = sent.Round /\ m.Step = sent.Step /\ m.id < sent.msg.id)
             => (ChanIndex(m.id) # 0 /\ ChanIndex(m.id) < e)

\* C19: messages parked for the same round and step are sent to the channel
\* in the order in which they arrived.
C19_ParkedDeliveredInArrivalOrder ==
    \A i, j \in ParkedValid :
        LET a == arrivals[i].msg
            b == arrivals[j].msg
        IN (a.Round = b.Round /\ a.Step = b.Step /\ a.id < b.id
            /\ ChanIndex(a.id) # 0 /\ ChanIndex(b.id) # 0)
             => ChanIndex(a.id) < ChanIndex(b.id)

\* the bound on the messages parked for one round and step
ParkBound == 2

\* C20: the messages parked for a round and a step are never more than ParkBound.
C20_ParkedWithinBound ==
    \A rs \in Positions : Len(ctx.Queue[rs]) <= ParkBound

\* the message m is in the channel of the context c
Sent(c, m) == \E i \in 1..Len(c.Chan) : c.Chan[i].msg = m

\* the message m is parked in the context c
Parked(c, m) == \E rs \in Positions : \E i \in 1..Len(c.Queue[rs]) : c.Queue[rs][i] = m

\* C21: a message that fails a check causes only itself to be dropped. A
\* message that passes the checks and arrives for the round and step of the
\* context is sent to the channel without error, and every parked message
\* that passes the checks is afterwards in the channel or still parked,
\* whatever parked message fails.
C21_OnlyOffenderDropped ==
    [][last'.op = "Process"
        => LET m == last'.arg
           IN /\ (m.fails = "none" /\ m.Round = ctx.Round /\ m.Step = ctx.Step)
                   => (last'.err = NoError /\ Sent(ctx', m))
              /\ \A i \in ParkedValid :
                   Parked(ctx, arrivals[i].msg)
                     => (Sent(ctx', arrivals[i].msg) \/ Parked(ctx', arrivals[i].msg))]_vars

\* the votes the aggregator of the reducer r holds
Votes(r) == IF r.aggregator = Nil THEN <<>> ELSE r.aggregator.votes

\* C22: every reduction vote the aggregator holds and every reduction event
\* forwarded to the reduction channel has a BLS signature that verified for
\* the key of its sender, and every message msg.Process has parked or sent
\* has an Ed25519 signature that verified (a reduction message it has sent
\* has a verified BLS signature as well).
C22_SignaturesVerifiedFirst ==
    /\ \A i \in 1..Len(Votes(red)) : Votes(red)[i].blsOk
    /\ \A i \in 1..Len(red.channel) : red.channel[i].blsOk
    /\ \A i \in 1..Len(arrivals) :
         LET m == arrivals[i].msg
         IN /\ (Parked(ctx, m) \/ Sent(ctx, m)) => m.fails # "signature"
            /\ Sent(ctx, m) => m.pl.blsOk

\* a vote is in the aggregator, an event is in the reduction channel, and a
\* reduction message was sent by msg.Process or parked by it
C22_Witness ==
    /\ Len(Votes(red)) > 0
    /\ Len(red.channel) > 0
    /\ \E i \in 1..Len(arrivals) : Sent(ctx, arrivals[i].msg) \/ Parked(ctx, arrivals[i].msg)

\* C23: a reduction message of a sender that is not a member of the committee
\* of the message's round and step is not among the votes of the aggregator,
\* not in the reduction channel, and not among the messages msg.Process has
\* sent to the reduction channel of the context.
C23_NonMemberNeverCollected ==
    /\ \A i \in 1..Len(Votes(red)) : Votes(red)[i].member
    /\ \A i \in 1..Len(red.channel) : red.channel[i].member
    /\ \A i \in 1..Len(ctx.Chan) : ctx.Chan[i].msg.pl.member

\* a message of a non-member was filtered out while the aggregator holds a
\* vote, a member's event is in the reduction channel, and msg.Process has
\* answered a non-member's message with an error
C23_Witness ==
    /\ last.op = "Filter"
    /\ Len(Votes(red)) > 0
    /\ Len(red.channel) > 0
    /\ \E i \in 1..Len(arrivals) :
         /\ ~arrivals[i].msg.pl.member
         /\ arrivals[i].msg.fails = "none"
         /\ arrivals[i].msg.Step = ctx.Step

\* C24: a halt by timeout (empty hash, no StepVotes) sends no Agreement: the
\* only message it sends is the Regeneration signal, it leaves the reduction
\* listener paused and the timer stopped, and it advances the step by one.
C24_TimeoutHaltSendsNoAgreement ==
    [][last'.op = "Halt"
        => /\ red'.out = Append(red.out, "Regeneration")
           /\ red'.paused
           /\ red'.timer = 0
           /\ red'.step = red.step + 1]_vars

\* a committee member has halted by timeout after its Reduction vote
C24_Witness ==
    /\ last.op = "Halt"
    /\ last.X.amMember
    /\ Len(red.out) >= 2
    /\ red.out[Len(red.out) - 1] = "Reduction"
    /\ red.out[Len(red.out)] = "Regeneration"

\* the messages the reducer publishes in the step from the unprimed state
PublishedBy(old, new) == {new.out[i] : i \in (Len(old.out) + 1)..Len(new.out)}

C26_StepAdvancesByOne ==
    [][/\ red'.step >= red.step
       /\ (last'.op = "Halt" \/ (last'.op = "CollectStepVotes" /\ last'.err = NoError))
            => red'.step = red.step + 1
       /\ (last'.op = "CollectStepVotes" /\ last'.err # NoError)
            => red'.step = red.step]_vars

\* a CollectStepVotes has returned an error after the step was advanced by
\* earlier calls
C26_Witness ==
    /\ last.op = "CollectStepVotes"
    /\ last.err # NoError
    /\ red.step >= 2

\* C26 as stated: every CollectStepVotes and every Halt advances the step by
\* exactly one.
C26_EveryCallAdvances ==
    [][last'.op \in {"CollectStepVotes", "Halt"} => red'.step = red.step + 1]_vars

\* 2^k
Pow2(k) == IF k = 0 THEN 1 ELSE IF k = 1 THEN 2 ELSE IF k = 2 THEN 4 ELSE 8

\* the timeout after k consecutive empty halts, as the doubling rule has it
DoubledTimeOut(k) ==
    IF Pow2(k) * ConsensusTimeOut < ConsensusTimeThreshold
    THEN Pow2(k) * ConsensusTimeOut ELSE ConsensusTimeThreshold

\* C27: the timer of a reduction cycle is started with the timeout doubled
\* once for every one of the consecutive cycles before it that halted empty,
\* capped at ConsensusTimeThreshold, and with ConsensusTimeOut after a cycle
\* that ended with a voted hash.
C27_TimeOutDoubles ==
    [][(last'.op = "CollectStepVotes" /\ last'.err = NoError)
        => red'.timer = DoubledTimeOut(red.emptyHalts)]_vars

\* ------------------------------------------------------------------------
\* The score handler of the selection and the block generator

\* the length of a score, in bytes (32 in the code)
ScoreLen == 2

\* the bids that can be in a bid list or in a bid-list subset
MaxBidIds == 2

\* the highest round GenerateBlock is called for
MaxGenRound == 3

MaxBlockTime == 360

ByteSamples == {0, 1, 255}

Scores == [1..ScoreLen -> ByteSamples]

ScoreBids == 1..MaxBidIds

\* bytes.Compare of two byte slices: -1, 0 or 1
RECURSIVE bytesCompare(_, _)
bytesCompare(a, b) ==
    IF a = <<>> /\ b = <<>> THEN 0
    ELSE IF a = <<>> THEN 0 - 1
    ELSE IF b = <<>> THEN 1
    ELSE IF Head(a) < Head(b) THEN 0 - 1
    ELSE IF Head(a) > Head(b) THEN 1
    ELSE bytesCompare(Tail(a), Tail(b))

\* the bytes of a score read as a big-endian integer
RECURSIVE BigEndian(_)
BigEndian(a) == IF a = <<>> THEN 0 ELSE BigEndian(SubSeq(a, 1, Len(a) - 1)) * 256 + a[Len(a)]

\* Threshold.Exceeds
Exceeds(threshold, score) == bytesCompare(score, threshold) = 1

\* the serialised bid-list subsets: bids of 32 bytes each, followed by rest
\* bytes that do not make a bid
BidListSubsets ==
    {[bids |-> b, rest |-> r] : b \in UNION {[1..n -> ScoreBids] : n \in 0..MaxBidIds}, r \in {0, 1}}

ReconstructBidListSubset(pl) ==
    IF pl.rest # 0 THEN [list |-> <<>>, err |-> "malformed bidlist"]
    ELSE [list |-> pl.bids, err |-> NoError]

ValidateBids(b, bidListSubset) ==
    IF \A i \in 1..Len(bidListSubset) : bidListSubset[i] \in b
    THEN NoError ELSE "invalid public list"

validateBidListSubset(sh, bidListSubsetBytes) ==
    LET r == ReconstructBidListSubset(bidListSubsetBytes)
    IN IF r.err # NoError THEN r.err ELSE ValidateBids(sh.bidList, r.list)

ScoreEvents == [Score : Scores, BidListSubset : BidListSubsets, proofOk : BOOLEAN]

\* Verify that does not look at the bid-list subset
VerifyNoBidList(sh, m) ==
    IF ~Exceeds(sh.threshold, m.Score) THEN "score does not exceed threshold"
    ELSE IF ~m.proofOk THEN "proof verification failed"
    ELSE NoError

\* scoreHandler.Verify: the error it returns
Verify(sh, m) ==
    IF ~Exceeds(sh.threshold, m.Score) THEN "score does not exceed threshold"
    ELSE IF validateBidListSubset(sh, m.BidListSubset) # NoError
    THEN validateBidListSubset(sh, m.BidListSubset)
    ELSE IF ~m.proofOk THEN "proof verification failed"
    ELSE NoError

\* Priority that is true only for a strictly higher score
PriorityStrict(first, second) == bytesCompare(second.Score, first.Score) = 0 - 1

\* scoreHandler.Priority
Priority(first, second) == bytesCompare(second.Score, first.Score) # 1

\* the previous-block timestamps and the values of the local clock tried
PrevTimestamps == {0 - 1, 0, 1, MockTimestamp}

Clocks ==
    {0} \cup {MockTimestamp + d : d \in {0 - 1, 0, 1, MaxBlockTime, MaxBlockTime + 1}}

\* GenerateBlock without the upper clamp
GenerateBlockNoMax(round, prevBlockTimestamp, now, fetched) ==
    IF ~fetched THEN [err |-> "mempool", Timestamp |-> 0]
    ELSE [err |-> NoError,
          Timestamp |-> IF round > 1 /\ prevBlockTimestamp > 0 /\ now < prevBlockTimestamp
                        THEN prevBlockTimestamp ELSE now]

\* generator.GenerateBlock: the error, or the timestamp of the candidate;
\* now is the value of time.Now().Unix(), fetched tells whether the
\* transactions were fetched and executed
GenerateBlock(round, prevBlockTimestamp, now, fetched) ==
    IF ~fetched THEN [err |-> "mempool", Timestamp |-> 0]
    ELSE LET maxTimestamp == prevBlockTimestamp + MaxBlockTime
         IN [err |-> NoError,
             Timestamp |-> IF round > 1 /\ prevBlockTimestamp > 0
                           THEN IF now < prevBlockTimestamp THEN prevBlockTimestamp
                                ELSE IF now > maxTimestamp THEN maxTimestamp
                                ELSE now
                           ELSE now]

\* the inputs the handlers are applied to
VerifyInputs ==
    {[sh |-> [bidList |-> bl, threshold |-> threshold], m |-> m] :
       bl \in SUBSET ScoreBids, threshold \in Scores, m \in ScoreEvents}

PriorityInputs == {[first |-> [Score |-> a], second |-> [Score |-> b]] : a, b \in Scores}

GenerateInputs ==
    [round : 0..MaxGenRound, prev : PrevTimestamps, now : Clocks, fetched : BOOLEAN]

\* a score event is verified by a score handler
VerifyScore ==
    /\ last.op = "input"
    /\ last.arg \in VerifyInputs
    /\ last' = Op("Verify", Verify(last.arg.sh, last.arg.m), <<>>, last.arg, Nil)
    /\ UNCHANGED <<chainVars, msgVars>>

\* two score events are compared, in both orders
PrioritiseScores ==
    /\ last.op = "input"
    /\ last.arg \in PriorityInputs
    /\ last' = Op("Priority", NoError, <<>>, last.arg,
                  [ab |-> Priority(last.arg.first, last.arg.second),
                   ba |-> Priority(last.arg.second, last.arg.first)])
    /\ UNCHANGED <<chainVars, msgVars>>

\* a candidate block is generated
GenerateCandidate ==
    /\ last.op = "input"
    /\ last.arg \in GenerateInputs
    /\ LET in == last.arg
           res == GenerateBlock(in.round, in.prev, in.now, in.fetched)
       IN last' = Op("GenerateBlock", res.err, <<>>, in, [Timestamp |-> res.Timestamp])
    /\ UNCHANGED <<chainVars, msgVars>>

NextHandlers == VerifyScore \/ PrioritiseScores \/ GenerateCandidate

\* the handlers are pure functions: every initial state holds one input
InitHandlers ==
    InitWith({<<Genesis>>},
             {Op("input", NoError, <<>>, in, Nil) :
                in \in VerifyInputs \cup PriorityInputs \cup GenerateInputs})

SpecHandlers == InitHandlers /\ [][NextHandlers]_vars

\* C28: Verify accepts a score event exactly when its score is above the
\* threshold, its bid-list subset is a list of bids that are all in the bid
\* list of the handler, and its proof verifies; a score that is not above the
\* threshold is answered with the threshold error whatever the bid-list
\* subset and the proof are.
C28_VerifyAcceptsIff ==
    last.op = "Verify"
      => LET m == last.arg.m
             sh == last.arg.sh
             above == BigEndian(m.Score) > BigEndian(sh.threshold)
         IN /\ last.err = NoError
                 <=> /\ above
                     /\ m.BidListSubset.rest = 0
                     /\ \A i \in 1..Len(m.BidListSubset.bids) :
                          m.BidListSubset.bids[i] \in sh.bidList
                     /\ m.proofOk
            /\ ~above => last.err = "score does not exceed threshold"

\* a score event with two bids in its bid-list subset was accepted
C28_Witness ==
    /\ last.op = "Verify"
    /\ last.err = NoError
    /\ Len(last.arg.m.BidListSubset.bids) = 2
    /\ last.arg.m.BidListSubset.bids[1] # last.arg.m.BidListSubset.bids[2]

\* C29: Priority(first, second) is true exactly when the score of first, read
\* as a big-endian integer, is at least the score of second; of Priority(a, b)
\* and Priority(b, a) at least one is true, and both are true only for equal
\* scores.
C29_PriorityIsGreaterOrEqual ==
    last.op = "Priority"
      => LET a == last.arg.first.Score
             b == last.arg.second.Score
         IN /\ last.X.ab <=> BigEndian(a) >= BigEndian(b)
            /\ last.X.ab \/ last.X.ba
            /\ (last.X.ab /\ last.X.ba) => a = b

\* two scores that differ in the low byte only were compared, and two equal
\* scores
C29_Witness ==
    /\ last.op = "Priority"
    /\ last.arg.first.Score[1] = last.arg.second.Score[1]
    /\ last.arg.first.Score[ScoreLen] < last.arg.second.Score[ScoreLen]
    /\ ~last.X.ab
    /\ last.X.ba

\* C30: a candidate block of a round above 1 that follows a block with a
\* timestamp above 0 has a timestamp not below that of the previous block
\* and not above it by more than MaxBlockTime; a candidate block of round 0
\* or 1, or one that follows a block whose timestamp is not above 0, has the
\* value of the local clock as its timestamp.
C30_TimestampClamped ==
    (last.op = "GenerateBlock" /\ last.err = NoError)
      => LET in == last.arg
             t == last.X.Timestamp
         IN IF in.round > 1 /\ in.prev > 0
            THEN in.prev <= t /\ t <= in.prev + MaxBlockTime
            ELSE t = in.now

\* the local clock was ahead of the previous block by more than MaxBlockTime
\* and the timestamp was clamped
C30_Witness ==
    /\ last.op = "GenerateBlock"
    /\ last.err = NoError
    /\ last.arg.round > 1
    /\ last.arg.prev > 0
    /\ last.arg.now > last.arg.prev + MaxBlockTime
    /\ last.X.Timestamp = last.arg.prev + MaxBlockTime

\* C30 as stated: the timestamp of every candidate block is between the
\* timestamp of the previous block and that plus MaxBlockTime.
C30_AlwaysWithinBlockTime ==
    (last.op = "GenerateBlock" /\ last.err = NoError)
      => /\ last.arg.prev <= last.X.Timestamp
         /\ last.X.Timestamp <= last.arg.prev + MaxBlockTime

\* ------------------------------------------------------------------------
\* The handshake
\* ------------------------------------------------------------------------
\* the Writer makes the next call of its Handshake
WriterStep ==
    /\ CanStep(hs.writer, hs.toWriter, hs.toReader)
    /\ LET res == HandshakeStep(hs.writer, hs.toWriter, hs.toReader)
       IN /\ hs' = [hs EXCEPT !.writer = res.peer, !.toWriter = res.in, !.toReader = res.out]
          /\ last' = Op("Writer.Handshake", res.peer.ret, <<>>,
                        [call |-> hs.writer.calls[hs.writer.pc]], Nil)
    /\ UNCHANGED <<chainVars, ctx, arrivals, red, voteChannel, tasks>>

\* the Reader makes the next call of its Handshake
ReaderStep ==
    /\ CanStep(hs.reader, hs.toReader, hs.toWriter)
    /\ LET res == HandshakeStep(hs.reader, hs.toReader, hs.toWriter)
       IN /\ hs' = [hs EXCEPT !.reader = res.peer, !.toReader = res.in, !.toWriter = res.out]
          /\ last' = Op("Reader.Handshake", res.peer.ret, <<>>,
                        [call |-> hs.reader.calls[hs.reader.pc]], Nil)
    /\ UNCHANGED <<chainVars, ctx, arrivals, red, voteChannel, tasks>>

\* a remote peer that follows no protocol sends a message to the Writer
SendToWriter ==
    /\ hs.writer.ret = "running"
    /\ Len(hs.toWriter) < MaxWire
    /\ \E m \in WireMessages :
         /\ hs' = [hs EXCEPT !.toWriter = Append(@, m)]
         /\ last' = Op("send", NoError, <<>>, m, [to |-> "writer"])
    /\ UNCHANGED <<chainVars, ctx, arrivals, red, voteChannel, tasks>>

\* a remote peer that follows no protocol sends a message to the Reader
SendToReader ==
    /\ hs.reader.ret = "running"
    /\ Len(hs.toReader) < MaxWire
    /\ \E m \in WireMessages :
         /\ hs' = [hs EXCEPT !.toReader = Append(@, m)]
         /\ last' = Op("send", NoError, <<>>, m, [to |-> "reader"])
    /\ UNCHANGED <<chainVars, ctx, arrivals, red, voteChannel, tasks>>

\* a Writer and a Reader of any two versions, connected to each other
InitHandshake ==
    InitAll({<<Genesis>>}, {Op("New", NoError, <<>>, Nil, Nil)},
            {NewHandshake(w, r) : w, r \in Versions})

\* a Writer and a Reader against each other
NextHandshake == WriterStep \/ ReaderStep

SpecHandshake == InitHandshake /\ [][NextHandshake]_vars

\* both sides keep running: each is a goroutine of its node
LiveHandshake == SpecHandshake /\ WF_vars(WriterStep) /\ WF_vars(ReaderStep)

\* a Writer and a Reader, each against peers of any kind
NextPeers == WriterStep \/ ReaderStep \/ SendToWriter \/ SendToReader

SpecPeers == InitMsg /\ [][NextPeers]_vars

\* the calls of a handshake that read a message, in order
ReadCalls(peer) ==
    SelectSeq(peer.calls, LAMBDA c : c \in {"readVerAck", "readRemoteMsgVersion"})

\* the topic the i-th read of the peer expects
ExpectedTopic(peer, i) == IF ReadCalls(peer)[i] = "readVerAck" THEN "VerAck" ELSE "Version"

HandshakeFailed(peer) == peer.ret \notin {"running", NoError}

\* C31: a handshake has returned an error as soon as the message read where a
\* Version or a VerAck is expected has another topic, or the Version message
\* read does not decode or carries a major version other than the local one;
\* it returns nil only after a Version message of the local major version
\* and a VerAck were both read.
C31_HandshakeFailsOnMismatch ==
    \A peer \in {hs.writer, hs.reader} :
        /\ \A i \in 1..Len(peer.read) :
             (\/ peer.read[i].topic # ExpectedTopic(peer, i)
              \/ /\ peer.read[i].topic = "Version"
                 /\ (~peer.read[i].decodes
                       \/ peer.read[i].version.Major # peer.version.Major))
               => HandshakeFailed(peer)
        /\ peer.ret = NoError
             => /\ \E i \in 1..Len(peer.read) :
                     /\ peer.read[i].topic = "Version"
                     /\ peer.read[i].version.Major = peer.version.Major
                /\ \E i \in 1..Len(peer.read) : peer.read[i].topic = "VerAck"

\* a Writer has returned nil after a Version message that differs from its
\* version in the minor and patch numbers only
C31_Witness ==
    /\ hs.writer.ret = NoError
    /\ \E i \in 1..Len(hs.writer.read) :
         /\ hs.writer.read[i].topic = "Version"
         /\ hs.writer.read[i].version.Minor # hs.writer.version.Minor
         /\ hs.writer.read[i].version.Patch # hs.writer.version.Patch

\* C31 as stated: a handshake has returned an error whenever the Version
\* message read carries a version other than the local node version.
C31_FailsOnAnyOtherVersion ==
    \A peer \in {hs.writer, hs.reader} :
        \A i \in 1..Len(peer.read) :
            (/\ peer.read[i].topic = "Version"
             /\ ExpectedTopic(peer, i) = "Version"
             /\ peer.read[i].version # peer.version)
              => HandshakeFailed(peer)

\* the message at the head of the direction in is the one the next read of
\* the peer expects
NextReadMatches(peer, in) ==
    (peer.ret = "running" /\ in # <<>>)
      => Head(in).topic = ExpectedTopic(peer, Len(peer.read) + 1)

\* C40: a Writer and a Reader of the same major version, run against each
\* other, both return nil in the end, and on the way every message that
\* waits to be read is of the topic the next read of its receiver expects.
C40_HandshakeCompletes ==
    (hs.writer.version.Major = hs.reader.version.Major)
      => /\ [](NextReadMatches(hs.writer, hs.toWriter) /\ NextReadMatches(hs.reader, hs.toReader))
         /\ <>(hs.writer.ret = NoError /\ hs.reader.ret = NoError)

\* a Writer and a Reader have both returned nil after two reads each
C40_Witness ==
    /\ hs.writer.ret = NoError
    /\ hs.reader.ret = NoError
    /\ Len(hs.writer.read) = 2
    /\ Len(hs.reader.read) = 2
    /\ hs.toWriter = <<>>
    /\ hs.toReader = <<>>

\* C34: the reducer publishes an Agreement only in a Collect that halts the
\* cycle with a hash other than the empty hash, after the first step has
\* delivered StepVotes, on a node that is a member of the committee of the
\* step reached; a quorum without StepVotes of the first step publishes none.
C34_AgreementNeedsBothStepVotes ==
    [][("Agreement" \in PublishedBy(red, red'))
        => /\ last'.op = "Collect"
           /\ last'.arg.hash # emptyHash
           /\ red.aggregator.sv # Nil
           /\ last'.X.amMember]_vars

\* a member has reached the quorum on a block hash in a cycle that was
\* started without StepVotes of the first step, and has published the
\* Regeneration signal without an Agreement
C34_Witness ==
    /\ last.op = "Collect"
    /\ last.X.amMember
    /\ last.arg.hash = VotedHash
    /\ red.paused
    /\ red.aggregator.sv = Nil
    /\ Len(red.out) >= 2
    /\ red.out[Len(red.out)] = "Regeneration"
    /\ red.out[Len(red.out) - 1] # "Agreement"

\* ------------------------------------------------------------------------
\* The reduction cycles with the timer running
\* ------------------------------------------------------------------------
\* the reducer is finalized
FinalizeReducer ==
    /\ red' = Finalize(red)
    /\ last' = Op("Finalize", NoError, <<>>, Nil, Nil)
    /\ UNCHANGED <<chainVars, ctx, arrivals, voteChannel, hs, tasks>>

NextCycles ==
    \/ StepVotesEvent
    \/ TimerHalt
    \/ ReductionEvent
    \/ EmptyReductionEvent
    \/ FinalizeReducer

\* a timer that was started and not stopped fires in the end
LiveReduction == InitMsg /\ [][NextCycles]_vars /\ WF_vars(TimerHalt)

\* C35: reduction events are collected or filtered only while a cycle runs,
\* a running cycle ends only by a Halt (of the timer, or of the aggregator
\* inside Collect), by Finalize or by the start of the next cycle, and every
\* cycle that CollectStepVotes has started ends.
C35_CycleHalts ==
    /\ [][/\ last'.op \in {"Collect", "Filter"} => (~red.paused /\ red.timer # 0)
          /\ (~red.paused /\ red'.paused) => last'.op \in {"Halt", "Collect", "Finalize"}]_vars
    /\ (~red.paused ~> red.paused)

\* the timer has halted the second cycle after the first was halted by the
\* timer as well
C35_Witness ==
    /\ last.op = "Halt"
    /\ red.paused
    /\ red.emptyHalts = 2
    /\ red.step = MaxRedStep

\* ------------------------------------------------------------------------
\* The timer of the reduction as a task of its own
\* ------------------------------------------------------------------------
\* the timer expires: its callback, Halt with the empty hash, is due
TimerFires ==
    /\ red.timer # 0
    /\ ~red.fired
    /\ red' = [red EXCEPT !.timer = 0, !.fired = TRUE]
    /\ last' = Op("TimerFires", NoError, <<>>, Nil, Nil)
    /\ UNCHANGED <<chainVars, ctx, arrivals, voteChannel, hs, tasks>>

\* the callback of the expired timer runs: timer.Stop() in a Halt that ran
\* in between has not recalled it
FiredHalt ==
    /\ red.fired
    /\ \E amMember \in BOOLEAN :
         /\ red' = Halt([red EXCEPT !.fired = FALSE], emptyHash, <<>>, amMember)
         /\ last' = Op("Halt", NoError, <<>>, [hash |-> emptyHash],
                    [amMember |-> amMember])
    /\ UNCHANGED <<chainVars, ctx, arrivals, voteChannel, hs, tasks>>

NextTimerTask ==
    \/ StepVotesEvent
    \/ TimerFires
    \/ FiredHalt
    \/ ReductionEvent
    \/ EmptyReductionEvent

SpecTimerTask == InitMsg /\ [][NextTimerTask]_vars

\* C36: a Regeneration is emitted, and with it the step advanced, only by a
\* Halt that ends a running cycle, so that no cycle is halted twice.
C36_HaltOncePerCycle ==
    [][("Regeneration" \in PublishedBy(red, red')) => ~red.paused]_vars

\* C37: after a handleCertificateMessage, whether it installed a block or
\* returned early, the last certificate is the one decided for the
\* intermediate block the chain holds, so that provideRoundResults serves a
\* block with its own certificate.
C37_CertificateOfIntermediateBlock ==
    (last.op = "handleCertificateMessage" /\ intermediateBlock # Nil /\ lastCertificate # Nil)
        => lastCertificate.For = intermediateBlock.Hash

\* ------------------------------------------------------------------------
\* The rpc requests of the Listen loop and their responses
\* ------------------------------------------------------------------------
\* each handler yields the errors of the responses it sends on the response
\* channel of the request, in order, and whether it panics after them

\* provideLastBlock
provideLastBlock(c) == [responses |-> <<NoError>>, panic |-> FALSE]

\* provideLastCertificate
provideLastCertificate(c) ==
    [responses |-> IF c.lastCertificate = Nil THEN <<"no last certificate present">>
                   ELSE <<NoError>>,
     panic |-> FALSE]

\* provideCandidate: found says that the candidate store holds the hash,
\* encodeErr is the error of encodeCandidateMessage
provideCandidate(found, encodeErr) ==
    [responses |-> (IF ~found THEN <<"no candidate found for provided hash">> ELSE <<>>)
                       \o <<encodeErr>>,
     panic |-> FALSE]

\* provideRoundResults of the chain that provides candidates: marshalErr is
\* the error of marshalling the block and the certificate
provideRoundResultsNoReturn(c, round, marshalErr) ==
    LET first == IF c.intermediateBlock = Nil \/ c.lastCertificate = Nil
                 THEN <<"no intermediate block or certificate currently known">>
                 ELSE <<>>
    IN IF c.intermediateBlock = Nil
       THEN [responses |-> first, panic |-> TRUE]
       ELSE IF round # c.intermediateBlock.Height
       THEN [responses |-> Append(first,
                             "no intermediate block and certificate for the given round"),
             panic |-> FALSE]
       ELSE [responses |-> Append(first, marshalErr), panic |-> FALSE]

\* provideRoundResults: paramsOk says that the round can be read
provideRoundResults(c, paramsOk, round, marshalErr) ==
    [responses |->
        IF c.intermediateBlock = Nil \/ c.lastCertificate = Nil
        THEN <<"no intermediate block or certificate currently known">>
        ELSE IF ~paramsOk THEN <<"round cannot be read from request param">>
        ELSE IF round # c.intermediateBlock.Height
        THEN <<"no intermediate block and certificate for the given round">>
        ELSE <<marshalErr>>,
     panic |-> FALSE]

RpcErrors == {NoError, "marshalling failed"}

\* the responses to a request of each topic the Listen loop may take
RpcHandlers ==
    {[topic |-> "GetLastBlock", sent |-> provideLastBlock(Chain)],
     [topic |-> "GetLastCertificate", sent |-> provideLastCertificate(Chain)]}
    \cup {[topic |-> "VerifyCandidateBlock",
           sent |-> [responses |-> <<processCandidateVerificationRequest(Chain,
                                       [Block |-> b, Certificate |-> EmptyCertificate])>>,
                     panic |-> FALSE]] : b \in VerificationRequests}
    \cup {[topic |-> "GetCandidate", sent |-> provideCandidate(found, e)] :
            found \in BOOLEAN, e \in RpcErrors}
    \cup {[topic |-> "GetRoundResults", sent |-> provideRoundResultsNoReturn(Chain, round, e)] :
            round \in 0..MaxHeight, e \in RpcErrors}
    \cup {[topic |-> "GetRoundResults",
           sent |-> provideRoundResults(Chain, paramsOk, round, e)] :
            paramsOk \in BOOLEAN, round \in 0..MaxHeight, e \in RpcErrors}

\* the Listen loop takes a request from one of its rpc channels
ListenRpc ==
    /\ ~panicked
    /\ \E h \in RpcHandlers :
         /\ last' = Op(h.topic, NoError, <<>>, h.sent, Nil)
         /\ panicked' = h.sent.panic
    /\ UNCHANGED <<prevBlock, intermediateBlock, lastCertificate, p, bidList, db,
                   counter, pendingRU, rr>>
    /\ UNCHANGED msgVars

\* the Listen loop with its certificates and requests
NextRpc == HandleCertificateMessage \/ SendRoundUpdate \/ Rebuild \/ ListenRpc

SpecRpc == Init /\ [][NextRpc]_vars

RpcTopics ==
    {"GetLastBlock", "VerifyCandidateBlock", "GetLastCertificate", "GetCandidate",
     "GetRoundResults"}

\* C38: every rpc request the Listen loop takes is answered with exactly
\* one response, and the handler returns after it.
C38_OneResponsePerRequest ==
    (last.op \in RpcTopics) => (Len(last.arg.responses) = 1 /\ ~last.arg.panic)

\* C39: after a block was accepted, the provisioners and the bids the chain
\* holds are those restoreConsensusData builds from the stored blocks.
C39_RestoreEqualsAccepting ==
    LET restored == restoreConsensusData([Chain EXCEPT !.p = NewProvisioners,
                                                       !.bidList = EmptyBidList])
    IN (/\ last.op \in {"onAcceptBlock", "onAcceptBlock.request"}
        /\ last.err = NoError
        /\ "AcceptedBlock" \in Topics(last.events))
           => (restored.p = p /\ restored.bidList = bidList)

\* ------------------------------------------------------------------------
\* The handlers of the chain as goroutines that interleave
\* ------------------------------------------------------------------------
\* a message or a request starts a handler in an idle task
StartTask ==
    /\ \E t \in Tasks : \E h \in TaskHandlers[t] :
         /\ tasks[t].pc = 0
         /\ CanEnter(tasks, t, Handlers[h][1])
         /\ tasks' = Enter(tasks, t, h, 1)
    /\ UNCHANGED <<chainVars, last, ctx, arrivals, red, voteChannel, hs>>

\* a task goes on to the next step of its handler, or returns from it
TaskStep ==
    /\ \E t \in Tasks :
         /\ tasks[t].pc # 0
         /\ IF tasks[t].pc = Len(Handlers[tasks[t].handler])
            THEN tasks' = [tasks EXCEPT ![t] = IdleTask]
            ELSE /\ CanEnter(tasks, t, Handlers[tasks[t].handler][tasks[t].pc + 1])
                 /\ tasks' = Enter(tasks, t, tasks[t].handler, tasks[t].pc + 1)
    /\ UNCHANGED <<chainVars, last, ctx, arrivals, red, voteChannel, hs>>

NextTasks == StartTask \/ TaskStep

SpecTasks == InitMsg /\ [][NextTasks]_vars

\* C32: no task holds the mutex of the chain while it waits for an rpc
\* response, a channel or a timer.
C32_NoLockAcrossSuspension ==
    \A t \in Tasks : AtStep(tasks[t]).wait => tasks[t].holds = "none"

\* C33: no two tasks are in steps of which one writes a field of the chain
\* that the other reads or writes, and every task that reads prevBlock holds
\* the mutex.
C33_MutationsSerialised ==
    /\ \A t, u \in Tasks :
         t # u => AtStep(tasks[t]).writes
                    \cap (AtStep(tasks[u]).reads \cup AtStep(tasks[u]).writes) = {}
    /\ \A t \in Tasks : "prevBlock" \in AtStep(tasks[t]).reads => tasks[t].holds # "none"

====
